---- MODULE Spec2Model ----
(***************************************************************************)
(* Model of the divminder-crawler repository.                              *)
(*                                                                         *)
(*  - SpecPool / SpecPoolFair: the batch runners (optimized, cached and     *)
(*    sequential): main, the queueing goroutine, the goroutine that closes *)
(*    results, and the workers.                                            *)
(*  - SpecFileCache: one FileCache under arbitrary calls and a clock.      *)
(*  - SpecClients: the AlphaVantageClient and the FMPClient with their     *)
(*    caches and the rate limiter's tokens.                                *)
(*  - SpecLimiter: the token-bucket rate limiter against its ticker.       *)
(*  - SpecMulti: GetMultipleETFMetadata and GetMultipleDividendHistories.  *)
(*  - SpecParseRow: parseDividendRow on one table row.                     *)
(*  - SpecScrape: ScrapeDividendHistory on one page.                       *)
(*  - SpecCrawler: the crawler's main up to the writing of etfs.json.      *)
(*  - SpecReuse: one worker, its scraper and main's saving of the results. *)
(***************************************************************************)
EXTENDS Integers, Sequences, FiniteSets, Bags, TLC

\* ------------------------------------------------------------------ bounds
\* Largest number of ETF symbols GetYieldMaxETFGroups returns in a run.
MaxSymbols == 5
\* The same, for the runs whose termination is checked.
MaxSymbolsFair == 4

\* ------------------------------------------------------- program constants
\* optimized runner: const maxConcurrent = 5, retryAttempts = 2
maxConcurrentOptimized == 5
retryAttempts == 2
\* cached runner: const maxConcurrent = 3, cacheHours = 12
maxConcurrentCached == 3
cacheHours == 12

NoFile == -1
\* Age in hours of an output file when the run starts (NoFile: it does not exist).
AgeChoices == {NoFile, cacheHours - 1, cacheHours, cacheHours + 1}

\* an output file that needs an update: absent for odd symbols, stale for even ones
Outdated(s) == IF s % 2 = 1 THEN NoFile ELSE cacheHours + 1

\* an output file that is still valid: just valid for odd symbols, younger for even ones
StillValid(s) == IF s % 2 = 1 THEN cacheHours ELSE cacheHours - 1

Runners == {"optimized", "cached", "sequential"}

VARIABLES
  runner,        \* which main program runs: "optimized", "cached" or "sequential"
  symbols,       \* getSortedETFSymbols(etfs): the sorted symbol list
  toScrape,      \* the symbols that are queued (cached runner: those needing an update)
  cachedCount,   \* cached runner: symbols whose file is still valid
  mainPc,        \* position of main
  started,       \* the pool's goroutines have been started
  seqIdx,        \* sequential runner: symbols the range loop has gone through
  jobs,          \* contents of the jobs channel
  jobsClosed,
  results,       \* contents of the results channel
  resultsClosed,
  qi,            \* queueing goroutine: number of symbols already sent
  wg,            \* sync.WaitGroup counter
  workers,       \* the worker goroutines, as a bag of their local states
                 \* (the id parameter is only logged)
  successCount,
  failureCount,
  failedETFs,    \* the failedETFs slice, as a bag of symbols
  fileAge,       \* output file per symbol: NoFile, or its age in hours
  fileAge0,      \* fileAge when the run started
  \* history of the run, for stating the claims
  recvCount,     \* per symbol: times a worker received it from jobs
  sentCount,     \* per symbol: scrapeResults sent on results
  scrapeErr,     \* per symbol: "none" (no result yet), "ok", "error"
  saveCalls,     \* per symbol: invocations of saveToJSON on its file
  writeCount,    \* per symbol: successful writes of its file
  forceUpdate,   \* the force_update input the update workflow was dispatched with
  \* ---- the file cache and the API clients
  now,           \* the wall clock, in hours
  fcTtl,         \* FileCache.ttl of the cache under test
  fcDir,         \* the files of its cacheDir
  fcLast,        \* the last call made on it and what it returned
  fcLastSet,     \* per key: the data and the time of the most recent Set
  fcRemoved,     \* per key: its file was removed after the most recent Set
  metaDir,       \* the files of cache/etf_metadata (AlphaVantageClient.cache)
  fmpDir,        \* the files of cache/fmp (FMPClient.cache)
  tokens,        \* len(rateLimiter.tokens) of the AlphaVantageClient
  lastCall,      \* the last call made on a client and what it did
  metaFetched,   \* per symbol: the metadata fetched and cached, until invalidated
  fmpStored,     \* the keys FMPClient has stored since its last ClearCache
  multi,         \* the GetMultiple... call in progress: its loop and its maps
  fetchLog,      \* the calls for single symbols it has made and how each ended
  \* ---- the rate limiter against the clock
  rlNow,         \* the time since NewRateLimiter, in parts of the interval
  rlPending,     \* a tick of the ticker waits to be handled by the refill goroutine
  rlPassed,      \* per age below one interval: the calls Wait let through that long ago
  \* ---- the dividend table scraper
  currentYear,   \* time.Now().Year() while the page is scraped
  row,           \* the texts of the td cells of a table row
  rowEvent,      \* what parseDividendRow has returned for it
  table,         \* the rows of the dividend table of the page, in page order
  history,       \* what ScrapeDividendHistory has returned
  \* --- the crawler's main and its ImprovedYieldMaxScraper
  page,          \* what the distribution schedule page holds
  etfGroups,     \* ys.etfGroups: symbol -> group ("" where the map has no entry)
  crawlerPc,     \* where main is
  scheduleFile,  \* data/schedule_v3.json
  etfs,          \* the list GetImprovedETFList returned
  etfsFile,      \* data/etfs.json
  \* --- one worker that uses its scraper for one symbol after the other
  ruJobs,        \* the symbols the worker receives, in order
  ruRows,        \* per job: the rows of the page's dividend table that parse
  ruWorker,      \* the worker's position and locals
  ruHistories,   \* the DividendHistory values allocated so far, by address
  ruOnHTML,      \* the table callbacks registered on s.collector: the history of each
  ruResults,     \* the results channel
  ruFiles        \* per symbol: what main wrote to <symbol>_dividend_history.json

vars == <<runner, symbols, toScrape, cachedCount, mainPc, started, seqIdx, jobs, jobsClosed,
          results, resultsClosed, qi, wg, workers, successCount, failureCount,
          failedETFs, fileAge, fileAge0, recvCount, sentCount, scrapeErr, saveCalls,
          writeCount, forceUpdate,
          now, fcTtl, fcDir, fcLast, fcLastSet, fcRemoved,
          metaDir, fmpDir, tokens, lastCall, metaFetched, fmpStored, multi, fetchLog,
          rlNow, rlPending, rlPassed,
          currentYear, row, rowEvent, table, history,
          page, etfGroups, crawlerPc, scheduleFile, etfs, etfsFile,
          ruJobs, ruRows, ruWorker, ruHistories, ruOnHTML, ruResults, ruFiles>>

maxConcurrent == IF runner = "cached" THEN maxConcurrentCached ELSE maxConcurrentOptimized

\* a needsUpdate that takes a file of exactly cacheHours for outdated
needsUpdateAtLimit(age) == IF age = NoFile THEN TRUE ELSE age >= cacheHours

\* needsUpdate(filename): true when the file does not exist or is older than cacheHours
needsUpdate(age) == IF age = NoFile THEN TRUE ELSE age > cacheHours

\* saveToJSON fails: in json.MarshalIndent or when os.WriteFile opens the file (the file
\* is as it was), or while os.WriteFile writes (a truncated file, just modified).
\* Unknown stands for a file in either state.
Unknown == -2
FailedWrite(age) == Unknown

\* for attempt := 0; attempt < retryAttempts; attempt++ (the cached worker calls once)
MoreAttempts(attempt) == IF runner = "optimized" THEN attempt < retryAttempts ELSE FALSE

\* a worker's locals: pc is "recv" (at range jobs), "scrape" (in the retry loop, a
\* ScrapeDividendHistory call running or about to) or "done"; calls counts the scraper's
\* invocations for symbol
Worker(pc, symbol, attempt, calls) ==
  [pc |-> pc, symbol |-> symbol, attempt |-> attempt, calls |-> calls]
WorkerAtRecv == Worker("recv", 0, 0, 0)
WorkerDone == Worker("done", 0, 0, 0)
WorkerPanicked == Worker("panic", 0, 0, 0)

\* one worker moves from local state old to local state new
Step(old, new) == (workers (-) SetToBag({old})) (+) SetToBag({new})

\* n copies of e
Copies(e, n) == IF n = 0 THEN EmptyBag ELSE [x \in {e} |-> n]

\* no row is being parsed
ScraperIdle ==
  /\ currentYear = 0 /\ row = << >> /\ rowEvent = << >>
  /\ table = << >> /\ history = << >>

\* the file cache is not part of the batch runners
CacheIdle ==
  /\ ScraperIdle
  /\ now = 0 /\ fcTtl = 0 /\ fcDir = << >> /\ fcLast = << >>
  /\ fcLastSet = << >> /\ fcRemoved = << >>

\* no worker with a scraper of its own is looked at
ReuseIdle ==
  /\ ruJobs = << >> /\ ruRows = << >> /\ ruWorker = << >> /\ ruHistories = << >>
  /\ ruOnHTML = << >> /\ ruResults = << >> /\ ruFiles = << >>

\* the crawler's main is not running
CrawlerIdle ==
  /\ page = << >> /\ etfGroups = << >> /\ crawlerPc = "none"
  /\ scheduleFile = << >> /\ etfs = << >> /\ etfsFile = << >>
  /\ ReuseIdle

\* nor are the API clients
ClientsAtRest ==
  /\ metaDir = << >> /\ fmpDir = << >> /\ tokens = 0 /\ lastCall = << >>
  /\ metaFetched = << >> /\ fmpStored = {}
  /\ multi = << >> /\ fetchLog = << >>
  /\ rlNow = 0 /\ rlPending = FALSE /\ rlPassed = << >>

ClientsIdle == ClientsAtRest /\ CrawlerIdle

InitPoolWith(maxSymbols) ==
  /\ runner \in Runners
  /\ \E n \in 0 .. maxSymbols : symbols = [i \in 1 .. n |-> i]
  \* the output files present when the run starts: outdated ones are in turn absent
  \* and stale; in the cached runner, where the files decide what is scraped, any of
  \* them may instead be still valid
  /\ fileAge \in [DOMAIN symbols -> AgeChoices]
  /\ \A s \in DOMAIN symbols :
       \/ fileAge[s] = Outdated(s)
       \/ runner = "cached" /\ fileAge[s] = StillValid(s)
  /\ fileAge0 = fileAge
  \* update-data.yml runs the cached runner; its step is given no FORCE_UPDATE
  /\ forceUpdate \in (IF runner = "cached" THEN BOOLEAN ELSE {FALSE})
  /\ toScrape = << >>
  /\ cachedCount = 0
  /\ mainPc = "start"
  /\ started = FALSE
  /\ seqIdx = 0
  /\ jobs = << >> /\ jobsClosed = FALSE
  /\ results = << >> /\ resultsClosed = FALSE
  /\ qi = 0 /\ wg = 0
  /\ workers = EmptyBag
  /\ successCount = 0 /\ failureCount = 0
  /\ failedETFs = EmptyBag
  /\ recvCount = [s \in DOMAIN symbols |-> 0]
  /\ sentCount = [s \in DOMAIN symbols |-> 0]
  /\ scrapeErr = [s \in DOMAIN symbols |-> "none"]
  /\ saveCalls = [s \in DOMAIN symbols |-> 0]
  /\ writeCount = [s \in DOMAIN symbols |-> 0]

InitPool == InitPoolWith(MaxSymbols) /\ CacheIdle /\ ClientsIdle

InitPoolFair == InitPoolWith(MaxSymbolsFair) /\ CacheIdle /\ ClientsIdle

\* ------------------------------------------------------------------ main
\* cached runner, main: the loop over symbols that fills toScrape and cachedCount
CheckCache ==
  /\ runner = "cached" /\ mainPc = "start"
  /\ toScrape' = SelectSeq(symbols, LAMBDA s : needsUpdate(fileAge[s]))
  /\ cachedCount' = Len(SelectSeq(symbols, LAMBDA s : ~needsUpdate(fileAge[s])))
  /\ mainPc' = "checked"
  /\ UNCHANGED <<runner, symbols, started, seqIdx, jobs, jobsClosed, results,
                 resultsClosed, qi, wg, workers, successCount, failureCount,
                 failedETFs, fileAge, fileAge0, recvCount, sentCount,
                 scrapeErr, saveCalls, writeCount, forceUpdate, now, fcTtl,
                 fcDir, fcLast, fcLastSet, fcRemoved, metaDir, fmpDir, tokens,
                 lastCall, metaFetched, fmpStored, multi, fetchLog, rlNow,
                 rlPending, rlPassed, currentYear, row, rowEvent, table,
                 history, page, etfGroups, crawlerPc, scheduleFile, etfs,
                 etfsFile, ruJobs, ruRows, ruWorker, ruHistories, ruOnHTML,
                 ruResults, ruFiles>>

\* cached runner, main: if len(toScrape) > 0 { ... } is skipped
SkipPool ==
  /\ runner = "cached" /\ mainPc = "checked"
  /\ Len(toScrape) = 0
  /\ mainPc' = "done"
  /\ UNCHANGED <<runner, symbols, toScrape, cachedCount, started, seqIdx,
                 jobs, jobsClosed, results, resultsClosed, qi, wg, workers,
                 successCount, failureCount, failedETFs, fileAge, fileAge0,
                 recvCount, sentCount, scrapeErr, saveCalls, writeCount,
                 forceUpdate, now, fcTtl, fcDir, fcLast, fcLastSet, fcRemoved,
                 metaDir, fmpDir, tokens, lastCall, metaFetched, fmpStored,
                 multi, fetchLog, rlNow, rlPending, rlPassed, currentYear,
                 row, rowEvent, table, history, page, etfGroups, crawlerPc,
                 scheduleFile, etfs, etfsFile, ruJobs, ruRows, ruWorker,
                 ruHistories, ruOnHTML, ruResults, ruFiles>>

\* StartPool, had the loop run for i <= maxConcurrent
StartPoolOneMore ==
  /\ \/ runner = "optimized" /\ mainPc = "start" /\ toScrape' = symbols
     \/ runner = "cached" /\ mainPc = "checked" /\ Len(toScrape) > 0 /\ toScrape' = toScrape
  /\ wg' = maxConcurrent + 1
  /\ workers' = Copies(WorkerAtRecv, maxConcurrent + 1)
  /\ started' = TRUE
  /\ mainPc' = "range"
  /\ UNCHANGED <<runner, symbols, cachedCount, seqIdx, jobs, jobsClosed,
                 results, resultsClosed, qi, successCount, failureCount,
                 failedETFs, fileAge, fileAge0, recvCount, sentCount,
                 scrapeErr, saveCalls, writeCount, forceUpdate, now, fcTtl,
                 fcDir, fcLast, fcLastSet, fcRemoved, metaDir, fmpDir, tokens,
                 lastCall, metaFetched, fmpStored, multi, fetchLog, rlNow,
                 rlPending, rlPassed, currentYear, row, rowEvent, table,
                 history, page, etfGroups, crawlerPc, scheduleFile, etfs,
                 etfsFile, ruJobs, ruRows, ruWorker, ruHistories, ruOnHTML,
                 ruResults, ruFiles>>

\* main: make the channels, wg.Add(1) and go worker() maxConcurrent times,
\* start the queueing goroutine and the goroutine that closes results
StartPool ==
  /\ \/ runner = "optimized" /\ mainPc = "start" /\ toScrape' = symbols
     \/ runner = "cached" /\ mainPc = "checked" /\ Len(toScrape) > 0 /\ toScrape' = toScrape
  /\ wg' = maxConcurrent
  /\ workers' = Copies(WorkerAtRecv, maxConcurrent)
  /\ started' = TRUE
  /\ mainPc' = "range"
  /\ UNCHANGED <<runner, symbols, cachedCount, seqIdx, jobs, jobsClosed,
                 results, resultsClosed, qi, successCount, failureCount,
                 failedETFs, fileAge, fileAge0, recvCount, sentCount,
                 scrapeErr, saveCalls, writeCount, forceUpdate, now, fcTtl,
                 fcDir, fcLast, fcLastSet, fcRemoved, metaDir, fmpDir, tokens,
                 lastCall, metaFetched, fmpStored, multi, fetchLog, rlNow,
                 rlPending, rlPassed, currentYear, row, rowEvent, table,
                 history, page, etfGroups, crawlerPc, scheduleFile, etfs,
                 etfsFile, ruJobs, ruRows, ruWorker, ruHistories, ruOnHTML,
                 ruResults, ruFiles>>

\* capacity of both channels: make(chan ..., len(symbols))
ChanCap == Len(toScrape)

\* ------------------------------------------------- the queueing goroutine
\* jobs <- symbol
QueueJob ==
  /\ started /\ ~jobsClosed
  /\ qi < Len(toScrape)
  /\ Len(jobs) < ChanCap
  /\ jobs' = Append(jobs, toScrape[qi + 1])
  /\ qi' = qi + 1
  /\ UNCHANGED <<runner, symbols, toScrape, cachedCount, mainPc, started,
                 seqIdx, jobsClosed, results, resultsClosed, wg, workers,
                 successCount, failureCount, failedETFs, fileAge, fileAge0,
                 recvCount, sentCount, scrapeErr, saveCalls, writeCount,
                 forceUpdate, now, fcTtl, fcDir, fcLast, fcLastSet, fcRemoved,
                 metaDir, fmpDir, tokens, lastCall, metaFetched, fmpStored,
                 multi, fetchLog, rlNow, rlPending, rlPassed, currentYear,
                 row, rowEvent, table, history, page, etfGroups, crawlerPc,
                 scheduleFile, etfs, etfsFile, ruJobs, ruRows, ruWorker,
                 ruHistories, ruOnHTML, ruResults, ruFiles>>

\* close(jobs)
CloseJobs ==
  /\ started /\ ~jobsClosed
  /\ qi = Len(toScrape)
  /\ jobsClosed' = TRUE
  /\ UNCHANGED <<runner, symbols, toScrape, cachedCount, mainPc, started,
                 seqIdx, jobs, results, resultsClosed, qi, wg, workers,
                 successCount, failureCount, failedETFs, fileAge, fileAge0,
                 recvCount, sentCount, scrapeErr, saveCalls, writeCount,
                 forceUpdate, now, fcTtl, fcDir, fcLast, fcLastSet, fcRemoved,
                 metaDir, fmpDir, tokens, lastCall, metaFetched, fmpStored,
                 multi, fetchLog, rlNow, rlPending, rlPassed, currentYear,
                 row, rowEvent, table, history, page, etfGroups, crawlerPc,
                 scheduleFile, etfs, etfsFile, ruJobs, ruRows, ruWorker,
                 ruHistories, ruOnHTML, ruResults, ruFiles>>

\* ------------------------------------------------------------ the workers
\* WorkerRecv, had the receive left the symbol in the channel
WorkerRecvKeeps(w) ==
  /\ w.pc = "recv"
  /\ jobs # << >>
  /\ workers' = Step(w, Worker("scrape", Head(jobs), 0, 1))
  /\ recvCount' = [recvCount EXCEPT ![Head(jobs)] = @ + 1]
  /\ UNCHANGED <<runner, symbols, toScrape, cachedCount, mainPc, started,
                 seqIdx, jobs, jobsClosed, results, resultsClosed, qi, wg,
                 successCount, failureCount, failedETFs, fileAge, fileAge0,
                 sentCount, scrapeErr, saveCalls, writeCount, forceUpdate,
                 now, fcTtl, fcDir, fcLast, fcLastSet, fcRemoved, metaDir,
                 fmpDir, tokens, lastCall, metaFetched, fmpStored, multi,
                 fetchLog, rlNow, rlPending, rlPassed, currentYear, row,
                 rowEvent, table, history, page, etfGroups, crawlerPc,
                 scheduleFile, etfs, etfsFile, ruJobs, ruRows, ruWorker,
                 ruHistories, ruOnHTML, ruResults, ruFiles>>

\* for symbol := range jobs: a symbol is received and the first scrape begins
WorkerRecv(w) ==
  /\ w.pc = "recv"
  /\ jobs # << >>
  /\ workers' = Step(w, Worker("scrape", Head(jobs), 0, 1))
  /\ jobs' = Tail(jobs)
  /\ recvCount' = [recvCount EXCEPT ![Head(jobs)] = @ + 1]
  /\ UNCHANGED <<runner, symbols, toScrape, cachedCount, mainPc, started,
                 seqIdx, jobsClosed, results, resultsClosed, qi, wg,
                 successCount, failureCount, failedETFs, fileAge, fileAge0,
                 sentCount, scrapeErr, saveCalls, writeCount, forceUpdate,
                 now, fcTtl, fcDir, fcLast, fcLastSet, fcRemoved, metaDir,
                 fmpDir, tokens, lastCall, metaFetched, fmpStored, multi,
                 fetchLog, rlNow, rlPending, rlPassed, currentYear, row,
                 rowEvent, table, history, page, etfGroups, crawlerPc,
                 scheduleFile, etfs, etfsFile, ruJobs, ruRows, ruWorker,
                 ruHistories, ruOnHTML, ruResults, ruFiles>>

\* helper: results <- scrapeResult{symbol, history, err}, the send itself. The channel holds
\* len(symbols) results, so the send never waits; a send on a closed channel panics.
SendResult(w, err) ==
  IF resultsClosed
  THEN \* a send on a closed channel panics
       /\ workers' = Step(w, WorkerPanicked)
       /\ results' = results /\ sentCount' = sentCount /\ scrapeErr' = scrapeErr
  ELSE /\ Len(results) < ChanCap
       /\ results' = Append(results, [symbol |-> w.symbol, err |-> err])
       /\ sentCount' = [sentCount EXCEPT ![w.symbol] = @ + 1]
       /\ scrapeErr' = [scrapeErr EXCEPT ![w.symbol] = IF err THEN "error" ELSE "ok"]
       /\ workers' = Step(w, WorkerAtRecv)

\* ScrapeDividendHistory returns a nil error: break out of the retry loop and send
ScrapeOk(w) ==
  /\ w.pc = "scrape"
  /\ SendResult(w, FALSE)
  /\ UNCHANGED <<runner, symbols, toScrape, cachedCount, mainPc, started,
                 seqIdx, jobs, jobsClosed, resultsClosed, qi, wg,
                 successCount, failureCount, failedETFs, fileAge, fileAge0,
                 recvCount, saveCalls, writeCount, forceUpdate, now, fcTtl,
                 fcDir, fcLast, fcLastSet, fcRemoved, metaDir, fmpDir, tokens,
                 lastCall, metaFetched, fmpStored, multi, fetchLog, rlNow,
                 rlPending, rlPassed, currentYear, row, rowEvent, table,
                 history, page, etfGroups, crawlerPc, scheduleFile, etfs,
                 etfsFile, ruJobs, ruRows, ruWorker, ruHistories, ruOnHTML,
                 ruResults, ruFiles>>

\* ScrapeDividendHistory returns an error; attempt++; the loop condition holds and the
\* scraper is invoked again
ScrapeRetry(w) ==
  /\ w.pc = "scrape"
  /\ MoreAttempts(w.attempt + 1)
  /\ workers' = Step(w, Worker("scrape", w.symbol, w.attempt + 1, w.calls + 1))
  /\ UNCHANGED <<runner, symbols, toScrape, cachedCount, mainPc, started,
                 seqIdx, jobs, jobsClosed, results, resultsClosed, qi, wg,
                 successCount, failureCount, failedETFs, fileAge, fileAge0,
                 recvCount, sentCount, scrapeErr, saveCalls, writeCount,
                 forceUpdate, now, fcTtl, fcDir, fcLast, fcLastSet, fcRemoved,
                 metaDir, fmpDir, tokens, lastCall, metaFetched, fmpStored,
                 multi, fetchLog, rlNow, rlPending, rlPassed, currentYear,
                 row, rowEvent, table, history, page, etfGroups, crawlerPc,
                 scheduleFile, etfs, etfsFile, ruJobs, ruRows, ruWorker,
                 ruHistories, ruOnHTML, ruResults, ruFiles>>

\* ScrapeDividendHistory returns an error; attempt++; the loop ends and the error is sent
ScrapeGiveUp(w) ==
  /\ w.pc = "scrape"
  /\ ~MoreAttempts(w.attempt + 1)
  /\ SendResult(w, TRUE)
  /\ UNCHANGED <<runner, symbols, toScrape, cachedCount, mainPc, started,
                 seqIdx, jobs, jobsClosed, resultsClosed, qi, wg,
                 successCount, failureCount, failedETFs, fileAge, fileAge0,
                 recvCount, saveCalls, writeCount, forceUpdate, now, fcTtl,
                 fcDir, fcLast, fcLastSet, fcRemoved, metaDir, fmpDir, tokens,
                 lastCall, metaFetched, fmpStored, multi, fetchLog, rlNow,
                 rlPending, rlPassed, currentYear, row, rowEvent, table,
                 history, page, etfGroups, crawlerPc, scheduleFile, etfs,
                 etfsFile, ruJobs, ruRows, ruWorker, ruHistories, ruOnHTML,
                 ruResults, ruFiles>>

\* WorkerExit without the deferred wg.Done()
WorkerExitNoDone(w) ==
  /\ w.pc = "recv"
  /\ jobs = << >> /\ jobsClosed
  /\ workers' = Step(w, WorkerDone)
  /\ UNCHANGED <<runner, symbols, toScrape, cachedCount, mainPc, started,
                 seqIdx, jobs, jobsClosed, results, resultsClosed, qi, wg,
                 successCount, failureCount, failedETFs, fileAge, fileAge0,
                 recvCount, sentCount, scrapeErr, saveCalls, writeCount,
                 forceUpdate, now, fcTtl, fcDir, fcLast, fcLastSet, fcRemoved,
                 metaDir, fmpDir, tokens, lastCall, metaFetched, fmpStored,
                 multi, fetchLog, rlNow, rlPending, rlPassed, currentYear,
                 row, rowEvent, table, history, page, etfGroups, crawlerPc,
                 scheduleFile, etfs, etfsFile, ruJobs, ruRows, ruWorker,
                 ruHistories, ruOnHTML, ruResults, ruFiles>>

\* range jobs ends (jobs closed and drained); defer wg.Done()
WorkerExit(w) ==
  /\ w.pc = "recv"
  /\ jobs = << >> /\ jobsClosed
  /\ workers' = Step(w, WorkerDone)
  /\ wg' = wg - 1
  /\ UNCHANGED <<runner, symbols, toScrape, cachedCount, mainPc, started,
                 seqIdx, jobs, jobsClosed, results, resultsClosed, qi,
                 successCount, failureCount, failedETFs, fileAge, fileAge0,
                 recvCount, sentCount, scrapeErr, saveCalls, writeCount,
                 forceUpdate, now, fcTtl, fcDir, fcLast, fcLastSet, fcRemoved,
                 metaDir, fmpDir, tokens, lastCall, metaFetched, fmpStored,
                 multi, fetchLog, rlNow, rlPending, rlPassed, currentYear,
                 row, rowEvent, table, history, page, etfGroups, crawlerPc,
                 scheduleFile, etfs, etfsFile, ruJobs, ruRows, ruWorker,
                 ruHistories, ruOnHTML, ruResults, ruFiles>>

\* ---------------------------------------- the goroutine that closes results
\* close(results) without the wg.Wait() before it
CloseResultsNoWait ==
  /\ started /\ ~resultsClosed
  /\ resultsClosed' = TRUE
  /\ UNCHANGED <<runner, symbols, toScrape, cachedCount, mainPc, started,
                 seqIdx, jobs, jobsClosed, results, qi, wg, workers,
                 successCount, failureCount, failedETFs, fileAge, fileAge0,
                 recvCount, sentCount, scrapeErr, saveCalls, writeCount,
                 forceUpdate, now, fcTtl, fcDir, fcLast, fcLastSet, fcRemoved,
                 metaDir, fmpDir, tokens, lastCall, metaFetched, fmpStored,
                 multi, fetchLog, rlNow, rlPending, rlPassed, currentYear,
                 row, rowEvent, table, history, page, etfGroups, crawlerPc,
                 scheduleFile, etfs, etfsFile, ruJobs, ruRows, ruWorker,
                 ruHistories, ruOnHTML, ruResults, ruFiles>>

\* wg.Wait(); close(results)
CloseResults ==
  /\ started /\ ~resultsClosed
  /\ wg = 0
  /\ resultsClosed' = TRUE
  /\ UNCHANGED <<runner, symbols, toScrape, cachedCount, mainPc, started,
                 seqIdx, jobs, jobsClosed, results, qi, wg, workers,
                 successCount, failureCount, failedETFs, fileAge, fileAge0,
                 recvCount, sentCount, scrapeErr, saveCalls, writeCount,
                 forceUpdate, now, fcTtl, fcDir, fcLast, fcLastSet, fcRemoved,
                 metaDir, fmpDir, tokens, lastCall, metaFetched, fmpStored,
                 multi, fetchLog, rlNow, rlPending, rlPassed, currentYear,
                 row, rowEvent, table, history, page, etfGroups, crawlerPc,
                 scheduleFile, etfs, etfsFile, ruJobs, ruRows, ruWorker,
                 ruHistories, ruOnHTML, ruResults, ruFiles>>

\* ------------------------------------------------- main: for result := range results
\* ProcessFailed without its continue: the failed result is saved as well
ProcessFailedNoContinue ==
  /\ mainPc = "range" /\ results # << >>
  /\ Head(results).err
  /\ results' = Tail(results)
  /\ failureCount' = failureCount + 1
  /\ failedETFs' = failedETFs (+) SetToBag({Head(results).symbol})
  /\ saveCalls' = [saveCalls EXCEPT ![Head(results).symbol] = @ + 1]
  /\ writeCount' = [writeCount EXCEPT ![Head(results).symbol] = @ + 1]
  /\ fileAge' = [fileAge EXCEPT ![Head(results).symbol] = 0]
  /\ UNCHANGED <<runner, symbols, toScrape, cachedCount, mainPc, started,
                 seqIdx, jobs, jobsClosed, resultsClosed, qi, wg, workers,
                 successCount, fileAge0, recvCount, sentCount, scrapeErr,
                 forceUpdate, now, fcTtl, fcDir, fcLast, fcLastSet, fcRemoved,
                 metaDir, fmpDir, tokens, lastCall, metaFetched, fmpStored,
                 multi, fetchLog, rlNow, rlPending, rlPassed, currentYear,
                 row, rowEvent, table, history, page, etfGroups, crawlerPc,
                 scheduleFile, etfs, etfsFile, ruJobs, ruRows, ruWorker,
                 ruHistories, ruOnHTML, ruResults, ruFiles>>

\* result.err != nil: log, failureCount++, failedETFs = append(...), continue
ProcessFailed ==
  /\ mainPc = "range" /\ results # << >>
  /\ Head(results).err
  /\ results' = Tail(results)
  /\ failureCount' = failureCount + 1
  /\ failedETFs' = failedETFs (+) SetToBag({Head(results).symbol})
  /\ UNCHANGED <<runner, symbols, toScrape, cachedCount, mainPc, started,
                 seqIdx, jobs, jobsClosed, resultsClosed, qi, wg, workers,
                 successCount, fileAge, fileAge0, recvCount, sentCount,
                 scrapeErr, saveCalls, writeCount, forceUpdate, now, fcTtl,
                 fcDir, fcLast, fcLastSet, fcRemoved, metaDir, fmpDir, tokens,
                 lastCall, metaFetched, fmpStored, multi, fetchLog, rlNow,
                 rlPending, rlPassed, currentYear, row, rowEvent, table,
                 history, page, etfGroups, crawlerPc, scheduleFile, etfs,
                 etfsFile, ruJobs, ruRows, ruWorker, ruHistories, ruOnHTML,
                 ruResults, ruFiles>>

\* saveToJSON(filename, result.history) returns nil: successCount++
ProcessSaved ==
  /\ mainPc = "range" /\ results # << >>
  /\ ~Head(results).err
  /\ results' = Tail(results)
  /\ saveCalls' = [saveCalls EXCEPT ![Head(results).symbol] = @ + 1]
  /\ writeCount' = [writeCount EXCEPT ![Head(results).symbol] = @ + 1]
  /\ fileAge' = [fileAge EXCEPT ![Head(results).symbol] = 0]
  /\ successCount' = successCount + 1
  /\ UNCHANGED <<runner, symbols, toScrape, cachedCount, mainPc, started,
                 seqIdx, jobs, jobsClosed, resultsClosed, qi, wg, workers,
                 failureCount, failedETFs, fileAge0, recvCount, sentCount,
                 scrapeErr, forceUpdate, now, fcTtl, fcDir, fcLast, fcLastSet,
                 fcRemoved, metaDir, fmpDir, tokens, lastCall, metaFetched,
                 fmpStored, multi, fetchLog, rlNow, rlPending, rlPassed,
                 currentYear, row, rowEvent, table, history, page, etfGroups,
                 crawlerPc, scheduleFile, etfs, etfsFile, ruJobs, ruRows,
                 ruWorker, ruHistories, ruOnHTML, ruResults, ruFiles>>

\* saveToJSON returns an error: log, failureCount++, failedETFs = append(...), continue
ProcessSaveFailed ==
  /\ mainPc = "range" /\ results # << >>
  /\ ~Head(results).err
  /\ results' = Tail(results)
  /\ saveCalls' = [saveCalls EXCEPT ![Head(results).symbol] = @ + 1]
  /\ fileAge' = [fileAge EXCEPT ![Head(results).symbol] = FailedWrite(@)]
  /\ failureCount' = failureCount + 1
  /\ failedETFs' = failedETFs (+) SetToBag({Head(results).symbol})
  /\ UNCHANGED <<runner, symbols, toScrape, cachedCount, mainPc, started,
                 seqIdx, jobs, jobsClosed, resultsClosed, qi, wg, workers,
                 successCount, fileAge0, recvCount, sentCount, scrapeErr,
                 writeCount, forceUpdate, now, fcTtl, fcDir, fcLast,
                 fcLastSet, fcRemoved, metaDir, fmpDir, tokens, lastCall,
                 metaFetched, fmpStored, multi, fetchLog, rlNow, rlPending,
                 rlPassed, currentYear, row, rowEvent, table, history, page,
                 etfGroups, crawlerPc, scheduleFile, etfs, etfsFile, ruJobs,
                 ruRows, ruWorker, ruHistories, ruOnHTML, ruResults, ruFiles>>

\* range results ends: results is closed and drained; createSummary and the final log
RangeEnd ==
  /\ mainPc = "range"
  /\ results = << >> /\ resultsClosed
  /\ mainPc' = "done"
  /\ UNCHANGED <<runner, symbols, toScrape, cachedCount, started, seqIdx,
                 jobs, jobsClosed, results, resultsClosed, qi, wg, workers,
                 successCount, failureCount, failedETFs, fileAge, fileAge0,
                 recvCount, sentCount, scrapeErr, saveCalls, writeCount,
                 forceUpdate, now, fcTtl, fcDir, fcLast, fcLastSet, fcRemoved,
                 metaDir, fmpDir, tokens, lastCall, metaFetched, fmpStored,
                 multi, fetchLog, rlNow, rlPending, rlPassed, currentYear,
                 row, rowEvent, table, history, page, etfGroups, crawlerPc,
                 scheduleFile, etfs, etfsFile, ruJobs, ruRows, ruWorker,
                 ruHistories, ruOnHTML, ruResults, ruFiles>>

\* ------------------------------------------- the sequential runner's main
\* for i, symbol := range getSortedETFSymbols(etfs): ScrapeDividendHistory fails:
\* log, failureCount++, failedETFs = append(...), continue
SeqScrapeFailed ==
  /\ runner = "sequential" /\ mainPc = "start"
  /\ seqIdx < Len(symbols)
  /\ seqIdx' = seqIdx + 1
  /\ scrapeErr' = [scrapeErr EXCEPT ![symbols[seqIdx + 1]] = "error"]
  /\ failureCount' = failureCount + 1
  /\ failedETFs' = failedETFs (+) SetToBag({symbols[seqIdx + 1]})
  /\ UNCHANGED <<runner, symbols, toScrape, cachedCount, mainPc, started,
                 jobs, jobsClosed, results, resultsClosed, qi, wg, workers,
                 successCount, fileAge, fileAge0, recvCount, sentCount,
                 saveCalls, writeCount, forceUpdate, now, fcTtl, fcDir,
                 fcLast, fcLastSet, fcRemoved, metaDir, fmpDir, tokens,
                 lastCall, metaFetched, fmpStored, multi, fetchLog, rlNow,
                 rlPending, rlPassed, currentYear, row, rowEvent, table,
                 history, page, etfGroups, crawlerPc, scheduleFile, etfs,
                 etfsFile, ruJobs, ruRows, ruWorker, ruHistories, ruOnHTML,
                 ruResults, ruFiles>>

\* the scrape succeeds and saveToJSON returns nil: successCount++
SeqSaved ==
  /\ runner = "sequential" /\ mainPc = "start"
  /\ seqIdx < Len(symbols)
  /\ seqIdx' = seqIdx + 1
  /\ scrapeErr' = [scrapeErr EXCEPT ![symbols[seqIdx + 1]] = "ok"]
  /\ saveCalls' = [saveCalls EXCEPT ![symbols[seqIdx + 1]] = @ + 1]
  /\ writeCount' = [writeCount EXCEPT ![symbols[seqIdx + 1]] = @ + 1]
  /\ fileAge' = [fileAge EXCEPT ![symbols[seqIdx + 1]] = 0]
  /\ successCount' = successCount + 1
  /\ UNCHANGED <<runner, symbols, toScrape, cachedCount, mainPc, started,
                 jobs, jobsClosed, results, resultsClosed, qi, wg, workers,
                 failureCount, failedETFs, fileAge0, recvCount, sentCount,
                 forceUpdate, now, fcTtl, fcDir, fcLast, fcLastSet, fcRemoved,
                 metaDir, fmpDir, tokens, lastCall, metaFetched, fmpStored,
                 multi, fetchLog, rlNow, rlPending, rlPassed, currentYear,
                 row, rowEvent, table, history, page, etfGroups, crawlerPc,
                 scheduleFile, etfs, etfsFile, ruJobs, ruRows, ruWorker,
                 ruHistories, ruOnHTML, ruResults, ruFiles>>

\* the scrape succeeds and saveToJSON returns an error: failureCount++, continue
SeqSaveFailed ==
  /\ runner = "sequential" /\ mainPc = "start"
  /\ seqIdx < Len(symbols)
  /\ seqIdx' = seqIdx + 1
  /\ scrapeErr' = [scrapeErr EXCEPT ![symbols[seqIdx + 1]] = "ok"]
  /\ saveCalls' = [saveCalls EXCEPT ![symbols[seqIdx + 1]] = @ + 1]
  /\ fileAge' = [fileAge EXCEPT ![symbols[seqIdx + 1]] = FailedWrite(@)]
  /\ failureCount' = failureCount + 1
  /\ failedETFs' = failedETFs (+) SetToBag({symbols[seqIdx + 1]})
  /\ UNCHANGED <<runner, symbols, toScrape, cachedCount, mainPc, started,
                 jobs, jobsClosed, results, resultsClosed, qi, wg, workers,
                 successCount, fileAge0, recvCount, sentCount, writeCount,
                 forceUpdate, now, fcTtl, fcDir, fcLast, fcLastSet, fcRemoved,
                 metaDir, fmpDir, tokens, lastCall, metaFetched, fmpStored,
                 multi, fetchLog, rlNow, rlPending, rlPassed, currentYear,
                 row, rowEvent, table, history, page, etfGroups, crawlerPc,
                 scheduleFile, etfs, etfsFile, ruJobs, ruRows, ruWorker,
                 ruHistories, ruOnHTML, ruResults, ruFiles>>

\* the range loop ends: the summary is written and the totals are logged
SeqEnd ==
  /\ runner = "sequential" /\ mainPc = "start"
  /\ seqIdx = Len(symbols)
  /\ mainPc' = "done"
  /\ UNCHANGED <<runner, symbols, toScrape, cachedCount, started, seqIdx,
                 jobs, jobsClosed, results, resultsClosed, qi, wg, workers,
                 successCount, failureCount, failedETFs, fileAge, fileAge0,
                 recvCount, sentCount, scrapeErr, saveCalls, writeCount,
                 forceUpdate, now, fcTtl, fcDir, fcLast, fcLastSet, fcRemoved,
                 metaDir, fmpDir, tokens, lastCall, metaFetched, fmpStored,
                 multi, fetchLog, rlNow, rlPending, rlPassed, currentYear,
                 row, rowEvent, table, history, page, etfGroups, crawlerPc,
                 scheduleFile, etfs, etfsFile, ruJobs, ruRows, ruWorker,
                 ruHistories, ruOnHTML, ruResults, ruFiles>>

NextPool ==
  \/ CheckCache \/ SkipPool \/ StartPool
  \/ QueueJob \/ CloseJobs
  \/ \E w \in BagToSet(workers) : WorkerRecv(w)
  \/ \E w \in BagToSet(workers) : ScrapeOk(w)
  \/ \E w \in BagToSet(workers) : ScrapeRetry(w)
  \/ \E w \in BagToSet(workers) : ScrapeGiveUp(w)
  \/ \E w \in BagToSet(workers) : WorkerExit(w)
  \/ CloseResults
  \/ ProcessFailed \/ ProcessSaved \/ ProcessSaveFailed \/ RangeEnd
  \/ SeqScrapeFailed \/ SeqSaved \/ SeqSaveFailed \/ SeqEnd

SpecPool == InitPool /\ [][NextPool]_vars

\* the batch runners are not part of the file cache's runs
PoolIdle ==
  /\ ScraperIdle
  /\ CrawlerIdle
  /\ runner = "none" /\ symbols = << >> /\ toScrape = << >> /\ cachedCount = 0
  /\ forceUpdate = FALSE
  /\ mainPc = "none" /\ started = FALSE /\ seqIdx = 0
  /\ jobs = << >> /\ jobsClosed = FALSE /\ results = << >> /\ resultsClosed = FALSE
  /\ qi = 0 /\ wg = 0 /\ workers = EmptyBag
  /\ successCount = 0 /\ failureCount = 0 /\ failedETFs = EmptyBag
  /\ fileAge = << >> /\ fileAge0 = << >>
  /\ recvCount = << >> /\ sentCount = << >> /\ scrapeErr = << >>
  /\ saveCalls = << >> /\ writeCount = << >>

\* ============================================================ the file cache
\* Hours between two readings of the clock in the model.
TickHours == 12
\* The clock stops at MaxTime.
MaxTime == 36

\* NewFMPClient: cache.NewFileCache("cache/fmp", 12*time.Hour)
ttlFMP == 12
\* NewAlphaVantageClient: cache.NewETFMetadataCache("cache", 24*time.Hour)
ttlMetadata == 24

\* A file name is the sequence of its pieces, every "." a piece of its own.
\* filepath.Ext(name): the suffix beginning at the final dot, empty if there is no dot
Ext(name) ==
  IF \E i \in DOMAIN name : name[i] = "."
  THEN SubSeq(name, CHOOSE i \in DOMAIN name :
                      name[i] = "." /\ \A j \in DOMAIN name : name[j] = "." => j <= i,
              Len(name))
  ELSE << >>

JsonExt == <<".", "json">>

\* md5.Sum of the combined string, printed with %x: distinct digests for distinct strings
Md5Hex(combined) ==
  CASE combined = <<"etf_metadata", "_", "TSLY">> -> "5d1c"
    [] combined = <<"etf_metadata", "_", "MSTY">> -> "a07e"
    [] OTHER -> "ffff"

\* FileCache.generateCacheKey(prefix, params...): fmt.Sprintf("%s_%x.json", prefix, hash)
\* of combined = prefix + "_" + param + ...
generateCacheKey(prefix, param) ==
  <<prefix, "_", Md5Hex(<<prefix, "_", param>>), ".", "json">>

\* What a file of the cache directory holds.
Absent == [state |-> "absent"]
\* a file json.Decoder cannot decode into a CacheEntry
Corrupt == [state |-> "corrupt"]
\* CacheEntry{Data, CreatedAt, ExpiresAt, Key} as encoder.Encode writes it
CacheEntry(doc, createdAt, expiresAt, key) ==
  [state |-> "entry", data |-> doc, createdAt |-> createdAt, expiresAt |-> expiresAt,
   key |-> key]

\* A Go value is its type and its content; json.Marshal keeps the content only
GoValue(type, content) == [type |-> type, content |-> content]
Marshal(v) == v.content
\* json.Unmarshal(doc, target): into a typed target the value has the target's type,
\* into an interface{} it is a generic map[string]interface{} / []interface{}
Unmarshal(doc, targetType) ==
  GoValue(IF targetType = "interface{}" THEN "generic" ELSE targetType, doc)
NilValue == GoValue("nil", "null")

\* FileCache.Set(key, data) at time t: os.Create and encoder.Encode(entry)
FcSet(dir, ttl, key, data, t) ==
  [dir EXCEPT ![key] = CacheEntry(Marshal(data), t, t + ttl, key)]

\* an entry taken for expired from its deadline on
ExpiredAtDeadline(entry, t) == t >= entry.expiresAt

\* time.Now().After(entry.ExpiresAt)
Expired(entry, t) == t > entry.expiresAt

\* a Get that leaves the file it could not use where it is
FcGetKeepsFile(dir, key, targetType, t) ==
  IF dir[key].state = "absent"
  THEN [found |-> FALSE, err |-> "nil", log |-> "file not found",
        data |-> NilValue, dir |-> dir]
  ELSE IF dir[key].state = "corrupt"
  THEN [found |-> FALSE, err |-> "nil", log |-> "failed to decode",
        data |-> NilValue, dir |-> dir]
  ELSE IF Expired(dir[key], t)
  THEN [found |-> FALSE, err |-> "nil", log |-> "expired",
        data |-> NilValue, dir |-> dir]
  ELSE [found |-> TRUE, err |-> "nil", log |-> "hit",
        data |-> Unmarshal(dir[key].data, targetType), dir |-> dir]

\* FileCache.Get(key, target) at time t: what it returns and the directory afterwards
FcGet(dir, key, targetType, t) ==
  IF dir[key].state = "absent"
  THEN [found |-> FALSE, err |-> "nil", log |-> "file not found",
        data |-> NilValue, dir |-> dir]
  ELSE IF dir[key].state = "corrupt"
  THEN [found |-> FALSE, err |-> "nil", log |-> "failed to decode",
        data |-> NilValue, dir |-> [dir EXCEPT ![key] = Absent]]
  ELSE IF Expired(dir[key], t)
  THEN [found |-> FALSE, err |-> "nil", log |-> "expired",
        data |-> NilValue, dir |-> [dir EXCEPT ![key] = Absent]]
  ELSE [found |-> TRUE, err |-> "nil", log |-> "hit",
        data |-> Unmarshal(dir[key].data, targetType), dir |-> dir]

\* FileCache.Delete(key): os.Remove, a missing file is no error
FcDelete(dir, key) == [dir EXCEPT ![key] = Absent]

\* FileCache.Clear(): os.Remove of every entry of the directory whose extension is .json
FcClear(dir) ==
  [n \in DOMAIN dir |-> IF Ext(n) = JsonExt THEN Absent ELSE dir[n]]

\* FileCache.CleanExpired() at time t: of the .json files, those that do not decode
\* and those that have expired are removed
FcCleanExpired(dir, t) ==
  [n \in DOMAIN dir |->
     IF Ext(n) # JsonExt \/ dir[n].state = "absent" THEN dir[n]
     ELSE IF dir[n].state = "corrupt" THEN Absent
     ELSE IF Expired(dir[n], t) THEN Absent
     ELSE dir[n]]

\* FileCache.GetStats() at time t: the .json files are counted, and of them those
\* that decode and have expired; the sizes of the files are not part of the model
FcGetStats(dir, ttl, t) ==
  [totalEntries |->
     Cardinality({n \in DOMAIN dir : Ext(n) = JsonExt /\ dir[n].state # "absent"}),
   expiredEntries |->
     Cardinality({n \in DOMAIN dir : /\ Ext(n) = JsonExt /\ dir[n].state = "entry"
                                     /\ Expired(dir[n], t)}),
   ttlHours |-> ttl]

\* ------------------------------------------- a FileCache under arbitrary calls
\* the keys its callers use: as generateCacheKey makes them, and as FMPClient does
FcKeys == {generateCacheKey("etf_metadata", "TSLY"), <<"dividend_history", "_", "TSLY", "_", "1">>}
FcData == {GoValue("[]DividendEvent", "events1"), GoValue("[]DividendEvent", "events2")}
NoSet == [set |-> FALSE]

\* the files whose removal the step from dir to next has brought about
RemovedBy(dir, next) == {k \in DOMAIN dir : dir[k].state # "absent" /\ next[k].state = "absent"}

NoteRemoved(next) ==
  fcRemoved' = [k \in FcKeys |-> fcRemoved[k] \/ k \in RemovedBy(fcDir, next)]

InitFileCache ==
  /\ now = 0
  /\ fcTtl \in {ttlFMP, ttlMetadata}
  \* what an earlier process left in the directory
  /\ fcDir \in [FcKeys -> {Absent, Corrupt}]
  /\ fcLast = [op |-> "NewFileCache"]
  /\ fcLastSet = [k \in FcKeys |-> NoSet]
  /\ fcRemoved = [k \in FcKeys |-> FALSE]
  /\ PoolIdle /\ ClientsIdle

\* time passes
Tick ==
  /\ now + TickHours <= MaxTime
  /\ now' = now + TickHours
  /\ UNCHANGED <<runner, symbols, toScrape, cachedCount, mainPc, started,
                 seqIdx, jobs, jobsClosed, results, resultsClosed, qi, wg,
                 workers, successCount, failureCount, failedETFs, fileAge,
                 fileAge0, recvCount, sentCount, scrapeErr, saveCalls,
                 writeCount, forceUpdate, fcTtl, fcDir, fcLast, fcLastSet,
                 fcRemoved, metaDir, fmpDir, tokens, lastCall, metaFetched,
                 fmpStored, multi, fetchLog, rlNow, rlPending, rlPassed,
                 currentYear, row, rowEvent, table, history, page, etfGroups,
                 crawlerPc, scheduleFile, etfs, etfsFile, ruJobs, ruRows,
                 ruWorker, ruHistories, ruOnHTML, ruResults, ruFiles>>

CallSet(key, data) ==
  /\ fcDir' = FcSet(fcDir, fcTtl, key, data, now)
  /\ fcLast' = [op |-> "Set", key |-> key]
  /\ fcLastSet' = [fcLastSet EXCEPT ![key] = [set |-> TRUE, data |-> data, at |-> now]]
  /\ fcRemoved' = [fcRemoved EXCEPT ![key] = FALSE]
  /\ UNCHANGED <<runner, symbols, toScrape, cachedCount, mainPc, started,
                 seqIdx, jobs, jobsClosed, results, resultsClosed, qi, wg,
                 workers, successCount, failureCount, failedETFs, fileAge,
                 fileAge0, recvCount, sentCount, scrapeErr, saveCalls,
                 writeCount, forceUpdate, now, fcTtl, metaDir, fmpDir, tokens,
                 lastCall, metaFetched, fmpStored, multi, fetchLog, rlNow,
                 rlPending, rlPassed, currentYear, row, rowEvent, table,
                 history, page, etfGroups, crawlerPc, scheduleFile, etfs,
                 etfsFile, ruJobs, ruRows, ruWorker, ruHistories, ruOnHTML,
                 ruResults, ruFiles>>

CallGet(key) ==
  /\ fcDir' = FcGet(fcDir, key, "[]DividendEvent", now).dir
  /\ fcLast' = [op |-> "Get", key |-> key, at |-> now,
                before |-> fcDir[key],
                found |-> FcGet(fcDir, key, "[]DividendEvent", now).found,
                err |-> FcGet(fcDir, key, "[]DividendEvent", now).err,
                data |-> FcGet(fcDir, key, "[]DividendEvent", now).data,
                lastSet |-> fcLastSet[key], removed |-> fcRemoved[key]]
  /\ NoteRemoved(FcGet(fcDir, key, "[]DividendEvent", now).dir)
  /\ UNCHANGED <<runner, symbols, toScrape, cachedCount, mainPc, started,
                 seqIdx, jobs, jobsClosed, results, resultsClosed, qi, wg,
                 workers, successCount, failureCount, failedETFs, fileAge,
                 fileAge0, recvCount, sentCount, scrapeErr, saveCalls,
                 writeCount, forceUpdate, now, fcTtl, fcLastSet, metaDir,
                 fmpDir, tokens, lastCall, metaFetched, fmpStored, multi,
                 fetchLog, rlNow, rlPending, rlPassed, currentYear, row,
                 rowEvent, table, history, page, etfGroups, crawlerPc,
                 scheduleFile, etfs, etfsFile, ruJobs, ruRows, ruWorker,
                 ruHistories, ruOnHTML, ruResults, ruFiles>>

CallDelete(key) ==
  /\ fcDir' = FcDelete(fcDir, key)
  /\ fcLast' = [op |-> "Delete", key |-> key]
  /\ NoteRemoved(FcDelete(fcDir, key))
  /\ UNCHANGED <<runner, symbols, toScrape, cachedCount, mainPc, started,
                 seqIdx, jobs, jobsClosed, results, resultsClosed, qi, wg,
                 workers, successCount, failureCount, failedETFs, fileAge,
                 fileAge0, recvCount, sentCount, scrapeErr, saveCalls,
                 writeCount, forceUpdate, now, fcTtl, fcLastSet, metaDir,
                 fmpDir, tokens, lastCall, metaFetched, fmpStored, multi,
                 fetchLog, rlNow, rlPending, rlPassed, currentYear, row,
                 rowEvent, table, history, page, etfGroups, crawlerPc,
                 scheduleFile, etfs, etfsFile, ruJobs, ruRows, ruWorker,
                 ruHistories, ruOnHTML, ruResults, ruFiles>>

CallClear ==
  /\ fcDir' = FcClear(fcDir)
  /\ fcLast' = [op |-> "Clear"]
  /\ NoteRemoved(FcClear(fcDir))
  /\ UNCHANGED <<runner, symbols, toScrape, cachedCount, mainPc, started,
                 seqIdx, jobs, jobsClosed, results, resultsClosed, qi, wg,
                 workers, successCount, failureCount, failedETFs, fileAge,
                 fileAge0, recvCount, sentCount, scrapeErr, saveCalls,
                 writeCount, forceUpdate, now, fcTtl, fcLastSet, metaDir,
                 fmpDir, tokens, lastCall, metaFetched, fmpStored, multi,
                 fetchLog, rlNow, rlPending, rlPassed, currentYear, row,
                 rowEvent, table, history, page, etfGroups, crawlerPc,
                 scheduleFile, etfs, etfsFile, ruJobs, ruRows, ruWorker,
                 ruHistories, ruOnHTML, ruResults, ruFiles>>

CallCleanExpired ==
  /\ fcDir' = FcCleanExpired(fcDir, now)
  /\ fcLast' = [op |-> "CleanExpired", at |-> now, before |-> fcDir]
  /\ NoteRemoved(FcCleanExpired(fcDir, now))
  /\ UNCHANGED <<runner, symbols, toScrape, cachedCount, mainPc, started,
                 seqIdx, jobs, jobsClosed, results, resultsClosed, qi, wg,
                 workers, successCount, failureCount, failedETFs, fileAge,
                 fileAge0, recvCount, sentCount, scrapeErr, saveCalls,
                 writeCount, forceUpdate, now, fcTtl, fcLastSet, metaDir,
                 fmpDir, tokens, lastCall, metaFetched, fmpStored, multi,
                 fetchLog, rlNow, rlPending, rlPassed, currentYear, row,
                 rowEvent, table, history, page, etfGroups, crawlerPc,
                 scheduleFile, etfs, etfsFile, ruJobs, ruRows, ruWorker,
                 ruHistories, ruOnHTML, ruResults, ruFiles>>

CallGetStats ==
  /\ fcLast' = [op |-> "GetStats", stats |-> FcGetStats(fcDir, fcTtl, now)]
  /\ UNCHANGED <<runner, symbols, toScrape, cachedCount, mainPc, started,
                 seqIdx, jobs, jobsClosed, results, resultsClosed, qi, wg,
                 workers, successCount, failureCount, failedETFs, fileAge,
                 fileAge0, recvCount, sentCount, scrapeErr, saveCalls,
                 writeCount, forceUpdate, now, fcTtl, fcDir, fcLastSet,
                 fcRemoved, metaDir, fmpDir, tokens, lastCall, metaFetched,
                 fmpStored, multi, fetchLog, rlNow, rlPending, rlPassed,
                 currentYear, row, rowEvent, table, history, page, etfGroups,
                 crawlerPc, scheduleFile, etfs, etfsFile, ruJobs, ruRows,
                 ruWorker, ruHistories, ruOnHTML, ruResults, ruFiles>>

NextFileCache ==
  \/ Tick
  \/ \E key \in FcKeys, data \in FcData : CallSet(key, data)
  \/ \E key \in FcKeys : CallGet(key)
  \/ \E key \in FcKeys : CallDelete(key)
  \/ CallClear
  \/ CallCleanExpired
  \/ CallGetStats

SpecFileCache == InitFileCache /\ [][NextFileCache]_vars

\* ============================================================ the API clients
\* NewRateLimiter(5, time.Minute): the capacity of the tokens channel
maxCalls == 5

ApiSymbols == {"TSLY", "MSTY"}
\* the symbols FMPClient is asked about
FmpSymbols == {"TSLY"}
\* the years GetDividendHistory is called with
HistoryYears == 1
\* the from and to dates GetDividendCalendar is called with, as Format("2006-01-02") prints them
CalendarFrom == "2024-01-01"
CalendarTo == "2024-03-31"

\* fmt.Sprintf("dividend_history_%s_%d", symbol, years)
HistoryKey(symbol, years) == <<"dividend_history", "_", symbol, "_", ToString(years)>>
\* fmt.Sprintf("dividend_calendar_%s_%s", from, to)
CalendarKey(from, to) == <<"dividend_calendar", "_", from, "_", to>>

MetaNames == {generateCacheKey("etf_metadata", s) : s \in ApiSymbols}
FmpNames == {HistoryKey(s, HistoryYears) : s \in FmpSymbols} \cup {CalendarKey(CalendarFrom, CalendarTo)}

\* what the provider answers: nothing usable (no connection, a status other than 200, a
\* body that does not parse), an answer without data, or data
ApiAnswers == {"unusable", "empty", "data"}
IsData(answer) == answer = "data"

\* what a call reports when it returns
Returned(client, op, key, fromCache, http, token, err, result) ==
  [client |-> client, op |-> op, key |-> key, fromCache |-> fromCache, http |-> http,
   token |-> token, err |-> err, result |-> result]

\* a cache lookup that is never taken for a hit
CacheHitNever(g) == FALSE

\* "err == nil && found" after the cache lookup
CacheHit(g) == g.found

\* a Wait that lets the caller pass without a token
WaitNoToken ==
  /\ tokens' = tokens

\* RateLimiter.Wait(): <-rl.tokens, blocking while the channel is empty
Wait ==
  /\ tokens > 0
  /\ tokens' = tokens - 1

\* select { case rl.tokens <- struct{}{}: default: }
AddToken ==
  /\ tokens' = IF tokens < maxCalls THEN tokens + 1 ELSE tokens

\* the goroutine of NewRateLimiter on a tick, at whatever time the tick comes
RefillToken ==
  /\ tokens < maxCalls
  /\ AddToken
  /\ UNCHANGED <<runner, symbols, toScrape, cachedCount, mainPc, started,
                 seqIdx, jobs, jobsClosed, results, resultsClosed, qi, wg,
                 workers, successCount, failureCount, failedETFs, fileAge,
                 fileAge0, recvCount, sentCount, scrapeErr, saveCalls,
                 writeCount, forceUpdate, now, fcTtl, fcDir, fcLast,
                 fcLastSet, fcRemoved, metaDir, fmpDir, lastCall, metaFetched,
                 fmpStored, multi, fetchLog, rlNow, rlPending, rlPassed,
                 currentYear, row, rowEvent, table, history, page, etfGroups,
                 crawlerPc, scheduleFile, etfs, etfsFile, ruJobs, ruRows,
                 ruWorker, ruHistories, ruOnHTML, ruResults, ruFiles>>

InitClients ==
  /\ now = 0
  /\ metaDir = [n \in MetaNames |-> Absent]
  /\ fmpDir = [n \in FmpNames |-> Absent]
  /\ tokens = maxCalls
  /\ lastCall = Returned("none", "New", << >>, FALSE, FALSE, FALSE, FALSE, NilValue)
  /\ metaFetched = [s \in ApiSymbols |-> NoSet]
  /\ fmpStored = {}
  /\ multi = << >> /\ fetchLog = << >>
  /\ fcTtl = 0 /\ fcDir = << >> /\ fcLast = << >> /\ fcLastSet = << >> /\ fcRemoved = << >>
  /\ rlNow = 0 /\ rlPending = FALSE /\ rlPassed = << >>
  /\ PoolIdle

\* AlphaVantageClient.GetETFOverview(symbol)
GetETFOverview(symbol) ==
  /\ LET key == generateCacheKey("etf_metadata", symbol)
         g == FcGet(metaDir, key, "interface{}", now)
     IN IF CacheHit(g)
        THEN /\ metaDir' = g.dir
             /\ tokens' = tokens
             /\ metaFetched' = metaFetched
             /\ lastCall' = Returned("AlphaVantage", "GetETFOverview", key, TRUE, FALSE, FALSE,
                                     FALSE, Unmarshal(Marshal(g.data), "ETFMetadata"))
        ELSE /\ Wait
             /\ \E answer \in ApiAnswers :
                  IF IsData(answer)
                  THEN LET metadata == GoValue("ETFMetadata", <<symbol, answer, now>>)
                       IN /\ metaDir' = FcSet(g.dir, ttlMetadata, key, metadata, now)
                          /\ metaFetched' = [metaFetched EXCEPT ![symbol] =
                                               [set |-> TRUE, data |-> metadata, at |-> now]]
                          /\ lastCall' = Returned("AlphaVantage", "GetETFOverview", key, FALSE,
                                                  TRUE, tokens' # tokens, FALSE, metadata)
                  ELSE /\ metaDir' = g.dir
                       /\ metaFetched' = metaFetched
                       /\ lastCall' = Returned("AlphaVantage", "GetETFOverview", key, FALSE,
                                               TRUE, tokens' # tokens, TRUE, NilValue)

\* a caller calls GetETFOverview(symbol)
CallGetETFOverview(symbol) ==
  /\ GetETFOverview(symbol)
  /\ fetchLog' = fetchLog
  /\ UNCHANGED <<runner, symbols, toScrape, cachedCount, mainPc, started,
                 seqIdx, jobs, jobsClosed, results, resultsClosed, qi, wg,
                 workers, successCount, failureCount, failedETFs, fileAge,
                 fileAge0, recvCount, sentCount, scrapeErr, saveCalls,
                 writeCount, forceUpdate, now, fcTtl, fcDir, fcLast,
                 fcLastSet, fcRemoved, fmpDir, fmpStored, multi, rlNow,
                 rlPending, rlPassed, currentYear, row, rowEvent, table,
                 history, page, etfGroups, crawlerPc, scheduleFile, etfs,
                 etfsFile, ruJobs, ruRows, ruWorker, ruHistories, ruOnHTML,
                 ruResults, ruFiles>>

\* AlphaVantageClient.InvalidateETFCache(symbol)
InvalidateETFCache(symbol) ==
  /\ metaDir' = FcDelete(metaDir, generateCacheKey("etf_metadata", symbol))
  /\ metaFetched' = [metaFetched EXCEPT ![symbol] = NoSet]
  /\ lastCall' = Returned("AlphaVantage", "InvalidateETFCache",
                          generateCacheKey("etf_metadata", symbol),
                          FALSE, FALSE, FALSE, FALSE, NilValue)
  /\ UNCHANGED <<runner, symbols, toScrape, cachedCount, mainPc, started,
                 seqIdx, jobs, jobsClosed, results, resultsClosed, qi, wg,
                 workers, successCount, failureCount, failedETFs, fileAge,
                 fileAge0, recvCount, sentCount, scrapeErr, saveCalls,
                 writeCount, forceUpdate, now, fcTtl, fcDir, fcLast,
                 fcLastSet, fcRemoved, fmpDir, tokens, fmpStored, multi,
                 fetchLog, rlNow, rlPending, rlPassed, currentYear, row,
                 rowEvent, table, history, page, etfGroups, crawlerPc,
                 scheduleFile, etfs, etfsFile, ruJobs, ruRows, ruWorker,
                 ruHistories, ruOnHTML, ruResults, ruFiles>>

\* AlphaVantageClient.ClearCache()
AvClearCache ==
  /\ metaDir' = FcCleanExpired(metaDir, now)
  /\ metaFetched' = [s \in ApiSymbols |-> NoSet]
  /\ lastCall' = Returned("AlphaVantage", "ClearCache", << >>, FALSE, FALSE, FALSE, FALSE,
                          NilValue)
  /\ UNCHANGED <<runner, symbols, toScrape, cachedCount, mainPc, started,
                 seqIdx, jobs, jobsClosed, results, resultsClosed, qi, wg,
                 workers, successCount, failureCount, failedETFs, fileAge,
                 fileAge0, recvCount, sentCount, scrapeErr, saveCalls,
                 writeCount, forceUpdate, now, fcTtl, fcDir, fcLast,
                 fcLastSet, fcRemoved, fmpDir, tokens, fmpStored, multi,
                 fetchLog, rlNow, rlPending, rlPassed, currentYear, row,
                 rowEvent, table, history, page, etfGroups, crawlerPc,
                 scheduleFile, etfs, etfsFile, ruJobs, ruRows, ruWorker,
                 ruHistories, ruOnHTML, ruResults, ruFiles>>

\* FMPClient.GetDividendHistory and GetDividendCalendar: the cache under cacheKey, then
\* the provider
FmpCached(op, cacheKey) ==
  LET g == FcGet(fmpDir, cacheKey, "[]DividendEvent", now)
  IN IF CacheHit(g)
     THEN /\ fmpDir' = g.dir
          /\ fmpStored' = fmpStored
          /\ lastCall' = Returned("FMP", op, cacheKey, TRUE, FALSE, FALSE, FALSE, g.data)
     ELSE \E answer \in ApiAnswers :
            IF answer = "unusable"
            THEN /\ fmpDir' = g.dir
                 /\ fmpStored' = fmpStored
                 /\ lastCall' = Returned("FMP", op, cacheKey, FALSE, TRUE, FALSE, TRUE,
                                         NilValue)
            ELSE LET events == GoValue("[]DividendEvent", answer)
                 IN /\ fmpDir' = FcSet(g.dir, ttlFMP, cacheKey, events, now)
                    /\ fmpStored' = fmpStored \cup {cacheKey}
                    /\ lastCall' = Returned("FMP", op, cacheKey, FALSE, TRUE, FALSE, FALSE,
                                            events)

GetDividendHistory(symbol, years) ==
  /\ FmpCached("GetDividendHistory", HistoryKey(symbol, years))

\* a caller calls GetDividendHistory(symbol, years)
CallGetDividendHistory(symbol, years) ==
  /\ GetDividendHistory(symbol, years)
  /\ fetchLog' = fetchLog
  /\ UNCHANGED <<runner, symbols, toScrape, cachedCount, mainPc, started,
                 seqIdx, jobs, jobsClosed, results, resultsClosed, qi, wg,
                 workers, successCount, failureCount, failedETFs, fileAge,
                 fileAge0, recvCount, sentCount, scrapeErr, saveCalls,
                 writeCount, forceUpdate, now, fcTtl, fcDir, fcLast,
                 fcLastSet, fcRemoved, metaDir, tokens, metaFetched, multi,
                 rlNow, rlPending, rlPassed, currentYear, row, rowEvent,
                 table, history, page, etfGroups, crawlerPc, scheduleFile,
                 etfs, etfsFile, ruJobs, ruRows, ruWorker, ruHistories,
                 ruOnHTML, ruResults, ruFiles>>

GetDividendCalendar(fromDate, toDate) ==
  /\ FmpCached("GetDividendCalendar", CalendarKey(fromDate, toDate))
  /\ UNCHANGED <<runner, symbols, toScrape, cachedCount, mainPc, started,
                 seqIdx, jobs, jobsClosed, results, resultsClosed, qi, wg,
                 workers, successCount, failureCount, failedETFs, fileAge,
                 fileAge0, recvCount, sentCount, scrapeErr, saveCalls,
                 writeCount, forceUpdate, now, fcTtl, fcDir, fcLast,
                 fcLastSet, fcRemoved, metaDir, tokens, metaFetched, multi,
                 fetchLog, rlNow, rlPending, rlPassed, currentYear, row,
                 rowEvent, table, history, page, etfGroups, crawlerPc,
                 scheduleFile, etfs, etfsFile, ruJobs, ruRows, ruWorker,
                 ruHistories, ruOnHTML, ruResults, ruFiles>>

\* FMPClient.GetETFProfile(symbol): no cache
GetETFProfile(symbol) ==
  /\ \E answer \in ApiAnswers :
       lastCall' = Returned("FMP", "GetETFProfile", <<symbol>>, FALSE, TRUE, FALSE,
                            ~IsData(answer),
                            IF IsData(answer) THEN GoValue("ETFMetadata", <<symbol, answer, now>>)
                            ELSE NilValue)
  /\ UNCHANGED <<runner, symbols, toScrape, cachedCount, mainPc, started,
                 seqIdx, jobs, jobsClosed, results, resultsClosed, qi, wg,
                 workers, successCount, failureCount, failedETFs, fileAge,
                 fileAge0, recvCount, sentCount, scrapeErr, saveCalls,
                 writeCount, forceUpdate, now, fcTtl, fcDir, fcLast,
                 fcLastSet, fcRemoved, metaDir, fmpDir, tokens, metaFetched,
                 fmpStored, multi, fetchLog, rlNow, rlPending, rlPassed,
                 currentYear, row, rowEvent, table, history, page, etfGroups,
                 crawlerPc, scheduleFile, etfs, etfsFile, ruJobs, ruRows,
                 ruWorker, ruHistories, ruOnHTML, ruResults, ruFiles>>

\* FMPClient.ClearCache(): fmp.cache.Clear(), which returns nil
FmpClearCache ==
  /\ fmpDir' = FcClear(fmpDir)
  /\ fmpStored' = {}
  /\ lastCall' = Returned("FMP", "ClearCache", << >>, FALSE, FALSE, FALSE, FALSE, NilValue)
  /\ UNCHANGED <<runner, symbols, toScrape, cachedCount, mainPc, started,
                 seqIdx, jobs, jobsClosed, results, resultsClosed, qi, wg,
                 workers, successCount, failureCount, failedETFs, fileAge,
                 fileAge0, recvCount, sentCount, scrapeErr, saveCalls,
                 writeCount, forceUpdate, now, fcTtl, fcDir, fcLast,
                 fcLastSet, fcRemoved, metaDir, tokens, metaFetched, multi,
                 fetchLog, rlNow, rlPending, rlPassed, currentYear, row,
                 rowEvent, table, history, page, etfGroups, crawlerPc,
                 scheduleFile, etfs, etfsFile, ruJobs, ruRows, ruWorker,
                 ruHistories, ruOnHTML, ruResults, ruFiles>>

NextClients ==
  \/ Tick
  \/ RefillToken
  \/ \E symbol \in ApiSymbols : CallGetETFOverview(symbol)
  \/ \E symbol \in ApiSymbols : InvalidateETFCache(symbol)
  \/ AvClearCache
  \/ \E symbol \in FmpSymbols : CallGetDividendHistory(symbol, HistoryYears)
  \/ GetDividendCalendar(CalendarFrom, CalendarTo)
  \/ \E symbol \in FmpSymbols : GetETFProfile(symbol)
  \/ FmpClearCache

SpecClients == InitClients /\ [][NextClients]_vars

\* ------------------------------------------- GetMultipleETFOverviews, GetMultipleDividendHistories
\* The longest list of symbols a GetMultiple... call is given.
MaxList == 2

\* what a GetMultiple... call has in hand: the list, the index of its loop, its results
\* and errors maps, and whether it has returned (with what error)
MultiCall(op, list, idx, res, errs, pc, err) ==
  [op |-> op, list |-> list, idx |-> idx, results |-> res, errors |-> errs,
   pc |-> pc, err |-> err]
NoMulti == MultiCall("none", << >>, 0, << >>, {}, "returned", FALSE)

\* m[k] = v of a Go map
MapPut(m, k, v) == [x \in DOMAIN m \cup {k} |-> IF x = k THEN v ELSE m[x]]

SymbolLists == UNION {[1 .. n -> ApiSymbols] : n \in 0 .. MaxList}
MultiFmpNames == {HistoryKey(s, HistoryYears) : s \in ApiSymbols}

InitMulti ==
  /\ now = 0
  /\ metaDir = [n \in MetaNames |-> Absent]
  /\ fmpDir = [n \in MultiFmpNames |-> Absent]
  /\ tokens = maxCalls
  /\ lastCall = Returned("none", "New", << >>, FALSE, FALSE, FALSE, FALSE, NilValue)
  /\ metaFetched = [s \in ApiSymbols |-> NoSet]
  /\ fmpStored = {}
  /\ multi = NoMulti
  /\ fetchLog = << >>
  /\ fcTtl = 0 /\ fcDir = << >> /\ fcLast = << >> /\ fcLastSet = << >> /\ fcRemoved = << >>
  /\ rlNow = 0 /\ rlPending = FALSE /\ rlPassed = << >>
  /\ PoolIdle

\* a caller calls GetMultipleETFOverviews(symbols) or GetMultipleDividendHistories(symbols, years):
\* results := make(map...), errors := make(map...)
MultiStart(op, list) ==
  /\ multi.pc = "returned"
  /\ multi' = MultiCall(op, list, 1, << >>, {}, "loop", FALSE)
  /\ fetchLog' = << >>
  /\ UNCHANGED <<runner, symbols, toScrape, cachedCount, mainPc, started,
                 seqIdx, jobs, jobsClosed, results, resultsClosed, qi, wg,
                 workers, successCount, failureCount, failedETFs, fileAge,
                 fileAge0, recvCount, sentCount, scrapeErr, saveCalls,
                 writeCount, forceUpdate, now, fcTtl, fcDir, fcLast,
                 fcLastSet, fcRemoved, metaDir, fmpDir, tokens, lastCall,
                 metaFetched, fmpStored, rlNow, rlPending, rlPassed,
                 currentYear, row, rowEvent, table, history, page, etfGroups,
                 crawlerPc, scheduleFile, etfs, etfsFile, ruJobs, ruRows,
                 ruWorker, ruHistories, ruOnHTML, ruResults, ruFiles>>

\* the loop stopping at the first symbol that fails, with its error
MultiStepAborts(symbol) ==
  /\ fetchLog' = Append(fetchLog, [symbol |-> symbol, err |-> lastCall'.err])
  /\ multi' = IF lastCall'.err
              THEN [multi EXCEPT !.pc = "returned", !.err = TRUE]
              ELSE [multi EXCEPT !.idx = @ + 1,
                                 !.results = MapPut(@, symbol, lastCall'.result)]

\* one pass of the loop after the call for symbol has returned: errors[symbol] = err
\* and continue, or results[symbol] = the value
MultiStep(symbol) ==
  /\ fetchLog' = Append(fetchLog, [symbol |-> symbol, err |-> lastCall'.err])
  /\ multi' = IF lastCall'.err
              THEN [multi EXCEPT !.idx = @ + 1, !.errors = @ \cup {symbol}]
              ELSE [multi EXCEPT !.idx = @ + 1,
                                 !.results = MapPut(@, symbol, lastCall'.result)]

\* GetMultipleETFOverviews: metadata, err := av.GetETFOverview(symbol) for the next symbol
OverviewOfNext ==
  /\ multi.op = "GetMultipleETFOverviews" /\ multi.pc = "loop"
  /\ multi.idx <= Len(multi.list)
  /\ GetETFOverview(multi.list[multi.idx])
  /\ MultiStep(multi.list[multi.idx])
  /\ UNCHANGED <<runner, symbols, toScrape, cachedCount, mainPc, started,
                 seqIdx, jobs, jobsClosed, results, resultsClosed, qi, wg,
                 workers, successCount, failureCount, failedETFs, fileAge,
                 fileAge0, recvCount, sentCount, scrapeErr, saveCalls,
                 writeCount, forceUpdate, now, fcTtl, fcDir, fcLast,
                 fcLastSet, fcRemoved, fmpDir, fmpStored, rlNow, rlPending,
                 rlPassed, currentYear, row, rowEvent, table, history, page,
                 etfGroups, crawlerPc, scheduleFile, etfs, etfsFile, ruJobs,
                 ruRows, ruWorker, ruHistories, ruOnHTML, ruResults, ruFiles>>

\* GetMultipleDividendHistories: events, err := fmp.GetDividendHistory(symbol, years)
HistoryOfNext ==
  /\ multi.op = "GetMultipleDividendHistories" /\ multi.pc = "loop"
  /\ multi.idx <= Len(multi.list)
  /\ GetDividendHistory(multi.list[multi.idx], HistoryYears)
  /\ MultiStep(multi.list[multi.idx])
  /\ UNCHANGED <<runner, symbols, toScrape, cachedCount, mainPc, started,
                 seqIdx, jobs, jobsClosed, results, resultsClosed, qi, wg,
                 workers, successCount, failureCount, failedETFs, fileAge,
                 fileAge0, recvCount, sentCount, scrapeErr, saveCalls,
                 writeCount, forceUpdate, now, fcTtl, fcDir, fcLast,
                 fcLastSet, fcRemoved, metaDir, tokens, metaFetched, rlNow,
                 rlPending, rlPassed, currentYear, row, rowEvent, table,
                 history, page, etfGroups, crawlerPc, scheduleFile, etfs,
                 etfsFile, ruJobs, ruRows, ruWorker, ruHistories, ruOnHTML,
                 ruResults, ruFiles>>

\* return results, nil
MultiReturn ==
  /\ multi.pc = "loop"
  /\ multi.idx > Len(multi.list)
  /\ multi' = [multi EXCEPT !.pc = "returned", !.err = FALSE]
  /\ UNCHANGED <<runner, symbols, toScrape, cachedCount, mainPc, started,
                 seqIdx, jobs, jobsClosed, results, resultsClosed, qi, wg,
                 workers, successCount, failureCount, failedETFs, fileAge,
                 fileAge0, recvCount, sentCount, scrapeErr, saveCalls,
                 writeCount, forceUpdate, now, fcTtl, fcDir, fcLast,
                 fcLastSet, fcRemoved, metaDir, fmpDir, tokens, lastCall,
                 metaFetched, fmpStored, fetchLog, rlNow, rlPending, rlPassed,
                 currentYear, row, rowEvent, table, history, page, etfGroups,
                 crawlerPc, scheduleFile, etfs, etfsFile, ruJobs, ruRows,
                 ruWorker, ruHistories, ruOnHTML, ruResults, ruFiles>>

NextMulti ==
  \/ Tick
  \/ RefillToken
  \/ \E list \in SymbolLists : MultiStart("GetMultipleETFOverviews", list)
  \/ \E list \in SymbolLists : MultiStart("GetMultipleDividendHistories", list)
  \/ OverviewOfNext
  \/ HistoryOfNext
  \/ MultiReturn

SpecMulti == InitMulti /\ [][NextMulti]_vars

\* ------------------------------------------- the rate limiter against the clock
\* The clock of the limiter advances by one part of the interval (time.Minute).
PartsPerInterval == 2
\* The clock of the limiter stops after MaxIntervals intervals.
MaxIntervals == 3

Ages == 0 .. (PartsPerInterval - 1)

RECURSIVE SumPassed(_, _)
SumPassed(f, ages) ==
  IF ages = {} THEN 0
  ELSE LET a == CHOOSE x \in ages : TRUE IN f[a] + SumPassed(f, ages \ {a})

\* the calls let through in the window of one interval that ends now
PassedInWindow == SumPassed(rlPassed, Ages)

\* NewRateLimiter(maxCalls, interval): the channel filled with maxCalls tokens
InitLimiter ==
  /\ tokens = maxCalls
  /\ rlNow = 0 /\ rlPending = FALSE
  /\ rlPassed = [a \in Ages |-> 0]
  /\ now = 0 /\ fcTtl = 0 /\ fcDir = << >> /\ fcLast = << >>
  /\ fcLastSet = << >> /\ fcRemoved = << >>
  /\ metaDir = << >> /\ fmpDir = << >> /\ lastCall = << >>
  /\ metaFetched = << >> /\ fmpStored = {}
  /\ multi = << >> /\ fetchLog = << >>
  /\ PoolIdle

\* time passes; time.NewTicker(interval) delivers a tick at every full interval
LimiterClock ==
  /\ rlNow < MaxIntervals * PartsPerInterval
  /\ rlNow' = rlNow + 1
  /\ rlPassed' = [a \in Ages |-> IF a = 0 THEN 0 ELSE rlPassed[a - 1]]
  /\ rlPending' = IF (rlNow + 1) % PartsPerInterval = 0 THEN TRUE ELSE rlPending
  /\ UNCHANGED <<runner, symbols, toScrape, cachedCount, mainPc, started,
                 seqIdx, jobs, jobsClosed, results, resultsClosed, qi, wg,
                 workers, successCount, failureCount, failedETFs, fileAge,
                 fileAge0, recvCount, sentCount, scrapeErr, saveCalls,
                 writeCount, forceUpdate, now, fcTtl, fcDir, fcLast,
                 fcLastSet, fcRemoved, metaDir, fmpDir, tokens, lastCall,
                 metaFetched, fmpStored, multi, fetchLog, currentYear, row,
                 rowEvent, table, history, page, etfGroups, crawlerPc,
                 scheduleFile, etfs, etfsFile, ruJobs, ruRows, ruWorker,
                 ruHistories, ruOnHTML, ruResults, ruFiles>>

\* for range ticker.C in the goroutine of NewRateLimiter
TickerFires ==
  /\ rlPending
  /\ rlPending' = FALSE
  /\ AddToken
  /\ UNCHANGED <<runner, symbols, toScrape, cachedCount, mainPc, started,
                 seqIdx, jobs, jobsClosed, results, resultsClosed, qi, wg,
                 workers, successCount, failureCount, failedETFs, fileAge,
                 fileAge0, recvCount, sentCount, scrapeErr, saveCalls,
                 writeCount, forceUpdate, now, fcTtl, fcDir, fcLast,
                 fcLastSet, fcRemoved, metaDir, fmpDir, lastCall, metaFetched,
                 fmpStored, multi, fetchLog, rlNow, rlPassed, currentYear,
                 row, rowEvent, table, history, page, etfGroups, crawlerPc,
                 scheduleFile, etfs, etfsFile, ruJobs, ruRows, ruWorker,
                 ruHistories, ruOnHTML, ruResults, ruFiles>>

\* a caller comes back from rateLimiter.Wait() and makes its API call
CallPasses ==
  /\ Wait
  /\ rlPassed' = [rlPassed EXCEPT ![0] = @ + 1]
  /\ UNCHANGED <<runner, symbols, toScrape, cachedCount, mainPc, started,
                 seqIdx, jobs, jobsClosed, results, resultsClosed, qi, wg,
                 workers, successCount, failureCount, failedETFs, fileAge,
                 fileAge0, recvCount, sentCount, scrapeErr, saveCalls,
                 writeCount, forceUpdate, now, fcTtl, fcDir, fcLast,
                 fcLastSet, fcRemoved, metaDir, fmpDir, lastCall, metaFetched,
                 fmpStored, multi, fetchLog, rlNow, rlPending, currentYear,
                 row, rowEvent, table, history, page, etfGroups, crawlerPc,
                 scheduleFile, etfs, etfsFile, ruJobs, ruRows, ruWorker,
                 ruHistories, ruOnHTML, ruResults, ruFiles>>

NextLimiter ==
  \/ LimiterClock
  \/ TickerFires
  \/ CallPasses

SpecLimiter == InitLimiter /\ [][NextLimiter]_vars

\* ============================================================ the dividend table scraper
\* The most td cells a row of the table has.
MaxCells == 6

\* the calendar: a time.Time is its number of days since the zero time, in years of
\* twelve months of 31 days
DaysPerMonth == 31
MonthsPerYear == 12
\* time.Time{}
ZeroTime == 0
IsZero(t) == t = ZeroTime
\* time.Date(year, month, day, ...)
Date(year, month, day) ==
  ((year - 1) * MonthsPerYear + (month - 1)) * DaysPerMonth + (day - 1)
\* t.Year()
Year(t) == (t \div (MonthsPerYear * DaysPerMonth)) + 1
\* t.AddDate(0, 0, days)
AddDays(t, days) == t + days

\* The text of a cell: an amount in cents, a date written in one of the layouts, or
\* text with no digit in it.
AmountText(cents) ==
  [kind |-> "amount", layout |-> "", cents |-> cents, year |-> 0, month |-> 0, day |-> 0]
DateText(layout, year, month, day) ==
  [kind |-> "date", layout |-> layout, cents |-> 0, year |-> year, month |-> month,
   day |-> day]
PlainText == [kind |-> "text", layout |-> "", cents |-> 0, year |-> 0, month |-> 0, day |-> 0]

CellTexts(cy) ==
  { AmountText(45), AmountText(1000), PlainText,
    DateText("01/02/2006", cy + 1, 12, 31),
    DateText("01/02/2006", 2020, 1, 1),
    DateText("2006-01-02", 2019, 12, 31),
    DateText("01/02/2006", cy + 2, 1, 1) }

\* the first match of (\d+\.?\d*) in the text, in cents; -1 if there is no digit
FirstNumber(text) ==
  IF text.kind = "amount" THEN text.cents
  ELSE IF text.kind = "text" THEN -1
  ELSE IF text.layout = "2006-01-02" THEN text.year * 100
  ELSE text.month * 100

\* a parseAmount with no upper bound on the amount
parseAmountNoMax(text) ==
  IF FirstNumber(text) > 0 THEN FirstNumber(text) ELSE 0

\* DividendTableScraper.parseAmount(str), in cents
parseAmount(text) ==
  IF FirstNumber(text) > 0 /\ FirstNumber(text) < 1000 THEN FirstNumber(text) ELSE 0

\* DividendTableScraper.parseDate(str) in the year cy
parseDate(text, cy) ==
  IF text.kind = "date" /\ text.year >= 2020 /\ text.year <= cy + 1
  THEN Date(text.year, text.month, text.day)
  ELSE ZeroTime

DividendEvent(amount, exDate, payDate, declareDate) ==
  [Amount |-> amount, ExDate |-> exDate, PayDate |-> payDate, DeclareDate |-> declareDate]
\* parseDividendRow returns nil
NoEvent == [Amount |-> -1, ExDate |-> ZeroTime, PayDate |-> ZeroTime, DeclareDate |-> ZeroTime]

\* the loop of the alternate format over the cells from index i on (0-based as in the code)
RECURSIVE AlternateFormat(_, _, _, _)
AlternateFormat(cells, i, event, cy) ==
  IF i >= Len(cells) THEN event
  ELSE LET text == cells[i + 1]
           next ==
             IF parseAmount(text) > 0 /\ event.Amount = 0
             THEN [event EXCEPT !.Amount = parseAmount(text)]
             ELSE IF ~IsZero(parseDate(text, cy))
             THEN IF IsZero(event.ExDate)
                  THEN [event EXCEPT !.ExDate = parseDate(text, cy)]
                  ELSE IF IsZero(event.PayDate) /\ i > 0
                  THEN [event EXCEPT !.PayDate = parseDate(text, cy)]
                  ELSE event
             ELSE event
       IN AlternateFormat(cells, i + 1, next, cy)

\* DividendTableScraper.parseDividendRow(row, symbol) in the year cy
parseDividendRow(cells, cy) ==
  LET blank == DividendEvent(0, ZeroTime, ZeroTime, ZeroTime)
      event ==
        IF Len(cells) >= 6
        THEN DividendEvent(parseAmount(cells[2]), parseDate(cells[4], cy),
                           parseDate(cells[6], cy), parseDate(cells[3], cy))
        ELSE IF Len(cells) >= 4
        THEN AlternateFormat(cells, 0, blank, cy)
        ELSE blank
  IN IF event.Amount > 0 /\ ~IsZero(event.ExDate)
     THEN DividendEvent(event.Amount, event.ExDate,
                        IF IsZero(event.PayDate) THEN AddDays(event.ExDate, 1)
                        ELSE event.PayDate,
                        IF IsZero(event.DeclareDate) THEN AddDays(event.ExDate, -1)
                        ELSE event.DeclareDate)
     ELSE NoEvent

ScrapeYears == {2025, 2026}
NotParsed == [Amount |-> -2]

InitParseRow ==
  /\ currentYear \in ScrapeYears
  /\ \E n \in 0 .. MaxCells : row \in [1 .. n -> CellTexts(currentYear)]
  /\ rowEvent = NotParsed
  /\ table = << >> /\ history = << >>
  /\ now = 0 /\ fcTtl = 0 /\ fcDir = << >> /\ fcLast = << >>
  /\ fcLastSet = << >> /\ fcRemoved = << >>
  /\ ClientsIdle
  /\ runner = "none" /\ symbols = << >> /\ toScrape = << >> /\ cachedCount = 0
  /\ forceUpdate = FALSE
  /\ mainPc = "none" /\ started = FALSE /\ seqIdx = 0
  /\ jobs = << >> /\ jobsClosed = FALSE /\ results = << >> /\ resultsClosed = FALSE
  /\ qi = 0 /\ wg = 0 /\ workers = EmptyBag
  /\ successCount = 0 /\ failureCount = 0 /\ failedETFs = EmptyBag
  /\ fileAge = << >> /\ fileAge0 = << >>
  /\ recvCount = << >> /\ sentCount = << >> /\ scrapeErr = << >>
  /\ saveCalls = << >> /\ writeCount = << >>

\* event := s.parseDividendRow(row, symbol)
ParseRow ==
  /\ rowEvent = NotParsed
  /\ rowEvent' = parseDividendRow(row, currentYear)
  /\ UNCHANGED <<runner, symbols, toScrape, cachedCount, mainPc, started,
                 seqIdx, jobs, jobsClosed, results, resultsClosed, qi, wg,
                 workers, successCount, failureCount, failedETFs, fileAge,
                 fileAge0, recvCount, sentCount, scrapeErr, saveCalls,
                 writeCount, forceUpdate, now, fcTtl, fcDir, fcLast,
                 fcLastSet, fcRemoved, metaDir, fmpDir, tokens, lastCall,
                 metaFetched, fmpStored, multi, fetchLog, rlNow, rlPending,
                 rlPassed, currentYear, row, table, history, page, etfGroups,
                 crawlerPc, scheduleFile, etfs, etfsFile, ruJobs, ruRows,
                 ruWorker, ruHistories, ruOnHTML, ruResults, ruFiles>>

NextParseRow == ParseRow

SpecParseRow == InitParseRow /\ [][NextParseRow]_vars

\* ------------------------------------------- ScrapeDividendHistory
\* The most rows the dividend table of a page has.
MaxRows == 3

\* a row of the standard format: ticker, amount, declared, ex, record and payable date
StandardRow(amount, exDate) ==
  <<PlainText, amount, PlainText, exDate, PlainText, PlainText>>

TableRows(cy) ==
  { StandardRow(AmountText(45), DateText("01/02/2006", 2020, 1, 1)),
    StandardRow(AmountText(60), DateText("01/02/2006", cy + 1, 12, 31)),
    StandardRow(AmountText(1000), DateText("2006-01-02", 2019, 12, 31)) }

\* tbody tr .Each: the events of the rows parseDividendRow accepts, appended in row order
RECURSIVE EventsOf(_, _)
EventsOf(rows, cy) ==
  IF rows = << >> THEN << >>
  ELSE LET event == parseDividendRow(Head(rows), cy)
       IN (IF event = NoEvent THEN << >> ELSE <<event>>) \o EventsOf(Tail(rows), cy)

RECURSIVE SumAmounts(_)
SumAmounts(events) ==
  IF events = << >> THEN 0 ELSE Head(events).Amount + SumAmounts(Tail(events))

\* a quotient of float64 values, kept as the pair it is computed from
Quotient(num, den) == [num |-> num, den |-> den]
NoStats == [TotalPayments |-> 0, AverageAmount |-> Quotient(0, 1), LastAmount |-> 0,
            YearToDateTotal |-> 0, TrailingYearTotal |-> 0, ChangePercent |-> Quotient(0, 1)]

\* "Calculate statistics" of ScrapeDividendHistory in the year cy
StatsOf(events, cy) ==
  IF Len(events) = 0 THEN NoStats
  ELSE [TotalPayments |-> Len(events),
        AverageAmount |-> Quotient(SumAmounts(events), Len(events)),
        LastAmount |-> events[1].Amount,
        YearToDateTotal |->
          SumAmounts(SelectSeq(events, LAMBDA e : e.ExDate > Date(cy, 1, 1))),
        TrailingYearTotal |-> SumAmounts(events),
        ChangePercent |->
          IF Len(events) > 1
          THEN Quotient((events[1].Amount - events[2].Amount) * 100, events[2].Amount)
          ELSE Quotient(0, 1)]

NotScraped == [err |-> "pending"]

InitScrape ==
  /\ currentYear \in ScrapeYears
  /\ \E n \in 0 .. MaxRows : table \in [1 .. n -> TableRows(currentYear)]
  /\ history = NotScraped
  /\ row = << >> /\ rowEvent = << >>
  /\ now = 0 /\ fcTtl = 0 /\ fcDir = << >> /\ fcLast = << >>
  /\ fcLastSet = << >> /\ fcRemoved = << >>
  /\ ClientsIdle
  /\ runner = "none" /\ symbols = << >> /\ toScrape = << >> /\ cachedCount = 0
  /\ forceUpdate = FALSE
  /\ mainPc = "none" /\ started = FALSE /\ seqIdx = 0
  /\ jobs = << >> /\ jobsClosed = FALSE /\ results = << >> /\ resultsClosed = FALSE
  /\ qi = 0 /\ wg = 0 /\ workers = EmptyBag
  /\ successCount = 0 /\ failureCount = 0 /\ failedETFs = EmptyBag
  /\ fileAge = << >> /\ fileAge0 = << >>
  /\ recvCount = << >> /\ sentCount = << >> /\ scrapeErr = << >>
  /\ saveCalls = << >> /\ writeCount = << >>

\* ScrapeDividendHistory(symbol) on a new scraper: the page is visited and parsed
ScrapeDividendHistory ==
  /\ history = NotScraped
  /\ history' = [err |-> "nil", Events |-> EventsOf(table, currentYear),
                 Stats |-> StatsOf(EventsOf(table, currentYear), currentYear)]
  /\ UNCHANGED <<runner, symbols, toScrape, cachedCount, mainPc, started,
                 seqIdx, jobs, jobsClosed, results, resultsClosed, qi, wg,
                 workers, successCount, failureCount, failedETFs, fileAge,
                 fileAge0, recvCount, sentCount, scrapeErr, saveCalls,
                 writeCount, forceUpdate, now, fcTtl, fcDir, fcLast,
                 fcLastSet, fcRemoved, metaDir, fmpDir, tokens, lastCall,
                 metaFetched, fmpStored, multi, fetchLog, rlNow, rlPending,
                 rlPassed, currentYear, row, rowEvent, table, page, etfGroups,
                 crawlerPc, scheduleFile, etfs, etfsFile, ruJobs, ruRows,
                 ruWorker, ruHistories, ruOnHTML, ruResults, ruFiles>>

\* s.collector.Visit(url) fails
ScrapeDividendHistoryFails ==
  /\ history = NotScraped
  /\ history' = [err |-> "failed to visit"]
  /\ UNCHANGED <<runner, symbols, toScrape, cachedCount, mainPc, started,
                 seqIdx, jobs, jobsClosed, results, resultsClosed, qi, wg,
                 workers, successCount, failureCount, failedETFs, fileAge,
                 fileAge0, recvCount, sentCount, scrapeErr, saveCalls,
                 writeCount, forceUpdate, now, fcTtl, fcDir, fcLast,
                 fcLastSet, fcRemoved, metaDir, fmpDir, tokens, lastCall,
                 metaFetched, fmpStored, multi, fetchLog, rlNow, rlPending,
                 rlPassed, currentYear, row, rowEvent, table, page, etfGroups,
                 crawlerPc, scheduleFile, etfs, etfsFile, ruJobs, ruRows,
                 ruWorker, ruHistories, ruOnHTML, ruResults, ruFiles>>

NextScrape ==
  \/ ScrapeDividendHistory
  \/ ScrapeDividendHistoryFails

SpecScrape == InitScrape /\ [][NextScrape]_vars

\* ------------------------------------------------- the crawler's main
\* Keys of etfData in GetImprovedETFList: one of each kind.
EtfDataSymbols == {"BIGY", "YMAX", "TSLY", "AMDL"}
\* yieldMaxETFs of generateSyntheticEvents, for the same symbols: it has no "AMDL".
yieldMaxETFs == [s \in {"BIGY", "YMAX", "TSLY"} |->
                   CASE s = "BIGY" -> "Target12" [] s = "YMAX" -> "Weekly" [] s = "TSLY" -> "GroupA"]
target12ETFs == {"BIGY"}
\* the columns of the ETF group mapping table of the page
MappingColumns == {"Weekly", "GroupA", "GroupB", "GroupC", "GroupD"}
\* the value a Go map gives for a key it does not hold
NoGroup == ""
\* no file of that name
NoFileYet == [exists |-> FALSE]

\* the pages the site can serve: which symbols the mapping table lists in which
\* column, and whether a Target 12 table with a date after now follows its header
Pages ==
  [mapping : [EtfDataSymbols -> MappingColumns \cup {NoGroup}], target12 : BOOLEAN]

\* parseETFGroupMappingTable
parseETFGroupMappingTable(groups, pg) ==
  [s \in EtfDataSymbols |-> IF pg.mapping[s] # NoGroup THEN pg.mapping[s] ELSE groups[s]]

\* parseTarget12TableImproved: a symbol without a group becomes Target12
parseTarget12TableImproved(groups, pg) ==
  [s \in EtfDataSymbols |->
     IF pg.target12 /\ s \in target12ETFs /\ groups[s] = NoGroup THEN "Target12" ELSE groups[s]]

\* generateSyntheticEvents: "Add all ETFs to the group mapping"
generateSyntheticEvents(groups) ==
  [s \in EtfDataSymbols |-> IF s \in DOMAIN yieldMaxETFs THEN yieldMaxETFs[s] ELSE groups[s]]

\* GetImprovedETFList: one ETF for each key of etfData
ETF(symbol, group) ==
  [Symbol |-> symbol, Group |-> group,
   Frequency |-> IF group = "Target12" THEN "monthly" ELSE "weekly"]
GetImprovedETFList(groups) == { ETF(s, groups[s]) : s \in EtfDataSymbols }

InitCrawler ==
  /\ page \in Pages
  /\ etfGroups = [s \in EtfDataSymbols |-> NoGroup]
  /\ crawlerPc = "schedule"
  /\ scheduleFile = NoFileYet /\ etfs = {} /\ etfsFile = NoFileYet
  /\ ReuseIdle
  /\ ScraperIdle
  /\ now = 0 /\ fcTtl = 0 /\ fcDir = << >> /\ fcLast = << >>
  /\ fcLastSet = << >> /\ fcRemoved = << >>
  /\ ClientsAtRest
  /\ runner = "none" /\ symbols = << >> /\ toScrape = << >> /\ cachedCount = 0
  /\ forceUpdate = FALSE
  /\ mainPc = "none" /\ started = FALSE /\ seqIdx = 0
  /\ jobs = << >> /\ jobsClosed = FALSE /\ results = << >> /\ resultsClosed = FALSE
  /\ qi = 0 /\ wg = 0 /\ workers = EmptyBag
  /\ successCount = 0 /\ failureCount = 0 /\ failedETFs = EmptyBag
  /\ fileAge = << >> /\ fileAge0 = << >>
  /\ recvCount = << >> /\ sentCount = << >> /\ scrapeErr = << >>
  /\ saveCalls = << >> /\ writeCount = << >>

\* GetScheduleImproved returns a schedule; main saves it (saved) or logs the failure
ScheduleScraped(saved) ==
  /\ crawlerPc = "schedule"
  /\ etfGroups' = generateSyntheticEvents(
                    parseTarget12TableImproved(parseETFGroupMappingTable(etfGroups, page), page))
  /\ scheduleFile' = IF saved THEN [exists |-> TRUE] ELSE scheduleFile
  /\ crawlerPc' = "etfs"
  /\ UNCHANGED <<runner, symbols, toScrape, cachedCount, mainPc, started,
                 seqIdx, jobs, jobsClosed, results, resultsClosed, qi, wg,
                 workers, successCount, failureCount, failedETFs, fileAge,
                 fileAge0, recvCount, sentCount, scrapeErr, saveCalls,
                 writeCount, forceUpdate, now, fcTtl, fcDir, fcLast,
                 fcLastSet, fcRemoved, metaDir, fmpDir, tokens, lastCall,
                 metaFetched, fmpStored, multi, fetchLog, rlNow, rlPending,
                 rlPassed, currentYear, row, rowEvent, table, history, page,
                 etfs, etfsFile, ruJobs, ruRows, ruWorker, ruHistories,
                 ruOnHTML, ruResults, ruFiles>>

\* collector.Visit fails: GetScheduleImproved returns before generateSyntheticEvents
ScheduleFailed ==
  /\ crawlerPc = "schedule"
  /\ crawlerPc' = "etfs"
  /\ UNCHANGED <<runner, symbols, toScrape, cachedCount, mainPc, started,
                 seqIdx, jobs, jobsClosed, results, resultsClosed, qi, wg,
                 workers, successCount, failureCount, failedETFs, fileAge,
                 fileAge0, recvCount, sentCount, scrapeErr, saveCalls,
                 writeCount, forceUpdate, now, fcTtl, fcDir, fcLast,
                 fcLastSet, fcRemoved, metaDir, fmpDir, tokens, lastCall,
                 metaFetched, fmpStored, multi, fetchLog, rlNow, rlPending,
                 rlPassed, currentYear, row, rowEvent, table, history, page,
                 etfGroups, scheduleFile, etfs, etfsFile, ruJobs, ruRows,
                 ruWorker, ruHistories, ruOnHTML, ruResults, ruFiles>>

\* main gets the ETF list and writes it to etfs.json (saved) or logs the failure
SaveETFList(saved) ==
  /\ crawlerPc = "etfs"
  /\ etfs' = GetImprovedETFList(etfGroups)
  /\ etfsFile' = IF saved THEN [exists |-> TRUE, data |-> GetImprovedETFList(etfGroups)]
                 ELSE etfsFile
  /\ crawlerPc' = "enrich"
  /\ UNCHANGED <<runner, symbols, toScrape, cachedCount, mainPc, started,
                 seqIdx, jobs, jobsClosed, results, resultsClosed, qi, wg,
                 workers, successCount, failureCount, failedETFs, fileAge,
                 fileAge0, recvCount, sentCount, scrapeErr, saveCalls,
                 writeCount, forceUpdate, now, fcTtl, fcDir, fcLast,
                 fcLastSet, fcRemoved, metaDir, fmpDir, tokens, lastCall,
                 metaFetched, fmpStored, multi, fetchLog, rlNow, rlPending,
                 rlPassed, currentYear, row, rowEvent, table, history, page,
                 etfGroups, scheduleFile, ruJobs, ruRows, ruWorker,
                 ruHistories, ruOnHTML, ruResults, ruFiles>>

NextCrawler ==
  \/ \E saved \in BOOLEAN : ScheduleScraped(saved)
  \/ ScheduleFailed
  \/ \E saved \in BOOLEAN : SaveETFList(saved)

SpecCrawler == InitCrawler /\ [][NextCrawler]_vars

\* --------------------------------- a worker and the scraper it keeps
\* The most symbols the worker receives, and the most rows of a page that parse.
MaxJobs == 3
MaxPageRows == 2

ReuseSymbols == <<"TSLY", "NVDY", "MSTY">>

\* the worker at pc, in its attempt-th call for its job-th symbol; during Visit the
\* cb-th registered table callback is at the rowNo-th row; cur is the history of the call
ReuseWorker(pc, job, attempt, cb, rowNo, cur) ==
  [pc |-> pc, job |-> job, attempt |-> attempt, cb |-> cb, rowNo |-> rowNo, cur |-> cur]

InitReuse ==
  /\ \E n \in 1 .. MaxJobs : ruJobs = SubSeq(ReuseSymbols, 1, n)
  /\ ruRows \in [DOMAIN ruJobs -> 0 .. MaxPageRows]
  /\ ruWorker = ReuseWorker("recv", 0, 0, 0, 0, 0)
  /\ ruHistories = << >> /\ ruOnHTML = << >> /\ ruResults = << >>
  /\ ruFiles = [i \in DOMAIN ruJobs |-> NoFileYet]
  /\ page = << >> /\ etfGroups = << >> /\ crawlerPc = "none"
  /\ scheduleFile = << >> /\ etfs = << >> /\ etfsFile = << >>
  /\ ScraperIdle
  /\ now = 0 /\ fcTtl = 0 /\ fcDir = << >> /\ fcLast = << >>
  /\ fcLastSet = << >> /\ fcRemoved = << >>
  /\ ClientsAtRest
  /\ runner = "none" /\ symbols = << >> /\ toScrape = << >> /\ cachedCount = 0
  /\ forceUpdate = FALSE
  /\ mainPc = "none" /\ started = FALSE /\ seqIdx = 0
  /\ jobs = << >> /\ jobsClosed = FALSE /\ results = << >> /\ resultsClosed = FALSE
  /\ qi = 0 /\ wg = 0 /\ workers = EmptyBag
  /\ successCount = 0 /\ failureCount = 0 /\ failedETFs = EmptyBag
  /\ fileAge = << >> /\ fileAge0 = << >>
  /\ recvCount = << >> /\ sentCount = << >> /\ scrapeErr = << >>
  /\ saveCalls = << >> /\ writeCount = << >>

\* for symbol := range jobs: the next symbol, or the end of the worker
ReuseRecv ==
  /\ ruWorker.pc = "recv"
  /\ ruWorker' = IF ruWorker.job < Len(ruJobs)
                 THEN ReuseWorker("call", ruWorker.job + 1, 0, 0, 0, 0)
                 ELSE ReuseWorker("done", ruWorker.job, 0, 0, 0, 0)
  /\ UNCHANGED <<runner, symbols, toScrape, cachedCount, mainPc, started,
                 seqIdx, jobs, jobsClosed, results, resultsClosed, qi, wg,
                 workers, successCount, failureCount, failedETFs, fileAge,
                 fileAge0, recvCount, sentCount, scrapeErr, saveCalls,
                 writeCount, forceUpdate, now, fcTtl, fcDir, fcLast,
                 fcLastSet, fcRemoved, metaDir, fmpDir, tokens, lastCall,
                 metaFetched, fmpStored, multi, fetchLog, rlNow, rlPending,
                 rlPassed, currentYear, row, rowEvent, table, history, page,
                 etfGroups, crawlerPc, scheduleFile, etfs, etfsFile, ruJobs,
                 ruRows, ruHistories, ruOnHTML, ruResults, ruFiles>>

\* scraper.ScrapeDividendHistory(symbol) up to Visit: a new history, and one more
\* table callback on the collector, which appends to that history
ReuseScrape ==
  /\ ruWorker.pc = "call"
  /\ ruHistories' = Append(ruHistories, [Symbol |-> ruJobs[ruWorker.job], Events |-> << >>])
  /\ ruOnHTML' = Append(ruOnHTML, Len(ruHistories) + 1)
  /\ ruWorker' = ReuseWorker("visit", ruWorker.job, ruWorker.attempt, 1, 1,
                             Len(ruHistories) + 1)
  /\ UNCHANGED <<runner, symbols, toScrape, cachedCount, mainPc, started,
                 seqIdx, jobs, jobsClosed, results, resultsClosed, qi, wg,
                 workers, successCount, failureCount, failedETFs, fileAge,
                 fileAge0, recvCount, sentCount, scrapeErr, saveCalls,
                 writeCount, forceUpdate, now, fcTtl, fcDir, fcLast,
                 fcLastSet, fcRemoved, metaDir, fmpDir, tokens, lastCall,
                 metaFetched, fmpStored, multi, fetchLog, rlNow, rlPending,
                 rlPassed, currentYear, row, rowEvent, table, history, page,
                 etfGroups, crawlerPc, scheduleFile, etfs, etfsFile, ruJobs,
                 ruRows, ruResults, ruFiles>>

\* Visit fails before any callback has run: the call returns (nil, err); the worker
\* calls again or, after retryAttempts calls, sends the error
ReuseVisitFails ==
  /\ ruWorker.pc = "visit" /\ ruWorker.cb = 1 /\ ruWorker.rowNo = 1
  /\ IF ruWorker.attempt + 1 < retryAttempts
     THEN /\ ruWorker' = ReuseWorker("call", ruWorker.job, ruWorker.attempt + 1, 0, 0, 0)
          /\ ruResults' = ruResults
     ELSE /\ ruWorker' = ReuseWorker("recv", ruWorker.job, 0, 0, 0, 0)
          /\ ruResults' = Append(ruResults, [symbol |-> ruJobs[ruWorker.job], err |-> TRUE,
                                             history |-> 0])
  /\ UNCHANGED <<runner, symbols, toScrape, cachedCount, mainPc, started,
                 seqIdx, jobs, jobsClosed, results, resultsClosed, qi, wg,
                 workers, successCount, failureCount, failedETFs, fileAge,
                 fileAge0, recvCount, sentCount, scrapeErr, saveCalls,
                 writeCount, forceUpdate, now, fcTtl, fcDir, fcLast,
                 fcLastSet, fcRemoved, metaDir, fmpDir, tokens, lastCall,
                 metaFetched, fmpStored, multi, fetchLog, rlNow, rlPending,
                 rlPassed, currentYear, row, rowEvent, table, history, page,
                 etfGroups, crawlerPc, scheduleFile, etfs, etfsFile, ruJobs,
                 ruRows, ruHistories, ruOnHTML, ruFiles>>

\* during Visit: the cb-th registered table callback parses the next row of the page
\* with the symbol of its own call and appends the event to the history of its own call
ReuseOnHTML ==
  /\ ruWorker.pc = "visit"
  /\ ruWorker.cb <= Len(ruOnHTML) /\ ruWorker.rowNo <= ruRows[ruWorker.job]
  /\ ruHistories' =
       [ruHistories EXCEPT ![ruOnHTML[ruWorker.cb]].Events =
          Append(@, [Symbol |-> ruHistories[ruOnHTML[ruWorker.cb]].Symbol,
                     fromPage |-> ruJobs[ruWorker.job], rowNo |-> ruWorker.rowNo])]
  /\ ruWorker' = IF ruWorker.rowNo < ruRows[ruWorker.job]
                 THEN [ruWorker EXCEPT !.rowNo = @ + 1]
                 ELSE [ruWorker EXCEPT !.cb = @ + 1, !.rowNo = 1]
  /\ UNCHANGED <<runner, symbols, toScrape, cachedCount, mainPc, started,
                 seqIdx, jobs, jobsClosed, results, resultsClosed, qi, wg,
                 workers, successCount, failureCount, failedETFs, fileAge,
                 fileAge0, recvCount, sentCount, scrapeErr, saveCalls,
                 writeCount, forceUpdate, now, fcTtl, fcDir, fcLast,
                 fcLastSet, fcRemoved, metaDir, fmpDir, tokens, lastCall,
                 metaFetched, fmpStored, multi, fetchLog, rlNow, rlPending,
                 rlPassed, currentYear, row, rowEvent, table, history, page,
                 etfGroups, crawlerPc, scheduleFile, etfs, etfsFile, ruJobs,
                 ruRows, ruOnHTML, ruResults, ruFiles>>

\* Visit and Wait have returned: the call returns its history and the worker sends it
ReuseReturn ==
  /\ ruWorker.pc = "visit"
  /\ ruWorker.cb > Len(ruOnHTML) \/ ruRows[ruWorker.job] = 0
  /\ ruResults' = Append(ruResults, [symbol |-> ruJobs[ruWorker.job], err |-> FALSE,
                                     history |-> ruWorker.cur])
  /\ ruWorker' = ReuseWorker("recv", ruWorker.job, 0, 0, 0, 0)
  /\ UNCHANGED <<runner, symbols, toScrape, cachedCount, mainPc, started,
                 seqIdx, jobs, jobsClosed, results, resultsClosed, qi, wg,
                 workers, successCount, failureCount, failedETFs, fileAge,
                 fileAge0, recvCount, sentCount, scrapeErr, saveCalls,
                 writeCount, forceUpdate, now, fcTtl, fcDir, fcLast,
                 fcLastSet, fcRemoved, metaDir, fmpDir, tokens, lastCall,
                 metaFetched, fmpStored, multi, fetchLog, rlNow, rlPending,
                 rlPassed, currentYear, row, rowEvent, table, history, page,
                 etfGroups, crawlerPc, scheduleFile, etfs, etfsFile, ruJobs,
                 ruRows, ruHistories, ruOnHTML, ruFiles>>

\* main: for result := range results: a failed result is logged; the history of another
\* is written by saveToJSON as it is at that moment (saved), or the write fails
ReuseProcess(saved) ==
  /\ ruResults # << >>
  /\ ruResults' = Tail(ruResults)
  /\ ruFiles' =
       IF Head(ruResults).err \/ ~saved THEN ruFiles
       ELSE [i \in DOMAIN ruJobs |->
               IF ruJobs[i] = Head(ruResults).symbol
               THEN [exists |-> TRUE, data |-> ruHistories[Head(ruResults).history]]
               ELSE ruFiles[i]]
  /\ UNCHANGED <<runner, symbols, toScrape, cachedCount, mainPc, started,
                 seqIdx, jobs, jobsClosed, results, resultsClosed, qi, wg,
                 workers, successCount, failureCount, failedETFs, fileAge,
                 fileAge0, recvCount, sentCount, scrapeErr, saveCalls,
                 writeCount, forceUpdate, now, fcTtl, fcDir, fcLast,
                 fcLastSet, fcRemoved, metaDir, fmpDir, tokens, lastCall,
                 metaFetched, fmpStored, multi, fetchLog, rlNow, rlPending,
                 rlPassed, currentYear, row, rowEvent, table, history, page,
                 etfGroups, crawlerPc, scheduleFile, etfs, etfsFile, ruJobs,
                 ruRows, ruWorker, ruHistories, ruOnHTML>>

NextReuse ==
  \/ ReuseRecv
  \/ ReuseScrape
  \/ ReuseVisitFails
  \/ ReuseOnHTML
  \/ ReuseReturn
  \/ \E saved \in BOOLEAN : ReuseProcess(saved)

SpecReuse == InitReuse /\ [][NextReuse]_vars

\* the goroutines take their steps: every scrape call returns, and the scheduler runs
\* every goroutine that can run
SpecPoolFair ==
  /\ InitPoolFair /\ [][NextPool]_vars
  /\ WF_vars(CheckCache \/ SkipPool \/ StartPool \/ ProcessFailed \/ ProcessSaved
             \/ ProcessSaveFailed \/ RangeEnd
             \/ SeqScrapeFailed \/ SeqSaved \/ SeqSaveFailed \/ SeqEnd)
  /\ WF_vars(QueueJob \/ CloseJobs)
  /\ WF_vars(CloseResults)
  /\ WF_vars(\E w \in BagToSet(workers) :
               WorkerRecv(w) \/ ScrapeOk(w) \/ ScrapeRetry(w) \/ ScrapeGiveUp(w)
               \/ WorkerExit(w))

\* ================================================================ the claims
\* the symbols the queueing goroutine has placed on jobs
Queued == {toScrape[i] : i \in 1 .. qi}

\* the number of workers inside the retry loop, i.e. of scrapes in progress
ScrapesInProgress ==
  BagCardinality([w \in {x \in BagToSet(workers) : x.pc = "scrape"} |-> workers[w]])

\* times symbol s was appended to failedETFs
FailedTimes(s) == CopiesIn(s, failedETFs)

\* main has returned and so has every goroutine of the pool
PoolTerminated ==
  /\ mainPc = "done"
  /\ started => /\ jobsClosed /\ resultsClosed
                /\ \A w \in BagToSet(workers) : w.pc = "done"

\* C1: every symbol placed on jobs is received by exactly one worker and produces
\* exactly one scrapeResult; no symbol is received or answered twice, none that was not
\* queued is received; when the run ends successCount + failureCount is the number of
\* symbols queued.
C1_EachSymbolOnce ==
  /\ \A s \in DOMAIN symbols :
       /\ recvCount[s] <= 1
       /\ sentCount[s] <= recvCount[s]
       /\ recvCount[s] = 1 => s \in Queued
  /\ (started /\ mainPc = "done") =>
       /\ qi = Len(toScrape)
       /\ \A s \in Queued : recvCount[s] = 1 /\ sentCount[s] = 1
       /\ successCount + failureCount = Len(toScrape)

C1_Witness ==
  /\ started /\ mainPc = "done"
  /\ Len(toScrape) > maxConcurrent
  /\ successCount > 0 /\ failureCount > 0

\* C2: with every scrape call returning and fair scheduling the batch runner
\* terminates for any number of symbols: jobs is closed, every worker has left its
\* loop, results is closed and main's loop over results has ended.
C2_BatchTerminates == <>PoolTerminated

C2_Witness ==
  /\ PoolTerminated /\ started
  /\ Len(toScrape) < maxConcurrent

\* C3: at every moment the number of scrapes in progress is at most maxConcurrent.
C3_BoundedConcurrency == ScrapesInProgress <= maxConcurrent

C3_Witness ==
  /\ ScrapesInProgress = maxConcurrent
  /\ jobs # << >>

\* C4: in the optimized runner the scraper has been invoked three times (the first
\* attempt and two retries) when a worker gives up and reports the error.
C4_ThreeInvocations ==
  [][\A w \in BagToSet(workers) :
       (runner = "optimized" /\ ScrapeGiveUp(w)) => w.calls = retryAttempts + 1]_vars

\* C5 as amended: a symbol whose scrape ends in an error is counted once as a failure
\* and saveToJSON is never called for its file, which stays as it was; every symbol is
\* processed; a symbol whose scrape succeeds has saveToJSON called exactly once for its
\* file, which writes it once, or fails, and then the symbol is counted once as a failure.
C5_Common ==
  \A s \in DOMAIN symbols :
    /\ FailedTimes(s) <= 1 /\ saveCalls[s] <= 1 /\ writeCount[s] <= saveCalls[s]
    /\ scrapeErr[s] = "error" =>
         saveCalls[s] = 0 /\ writeCount[s] = 0 /\ fileAge[s] = fileAge0[s]
    /\ mainPc = "done" =>
         /\ (runner = "cached" => s \in Queued \/ ~needsUpdate(fileAge0[s]))
         /\ (runner = "optimized" => s \in Queued)
         /\ s \in Queued \/ runner = "sequential" => scrapeErr[s] # "none"
         /\ scrapeErr[s] = "error" => FailedTimes(s) = 1

C5_LogAndSkip ==
  /\ C5_Common
  /\ \A s \in DOMAIN symbols :
       (mainPc = "done" /\ scrapeErr[s] = "ok") =>
         /\ saveCalls[s] = 1
         /\ writeCount[s] + FailedTimes(s) = 1

\* C5 as stated: ... a symbol whose scrape succeeds has its file written exactly once.
C5_Original ==
  /\ C5_Common
  /\ \A s \in DOMAIN symbols :
       (mainPc = "done" /\ scrapeErr[s] = "ok") => writeCount[s] = 1

C5_Witness ==
  /\ mainPc = "done" /\ started
  /\ \E s, u \in DOMAIN symbols :
       /\ scrapeErr[s] = "error" /\ fileAge0[s] # NoFile
       /\ scrapeErr[u] = "ok" /\ writeCount[u] = 1
C8_FivePerMinute == PassedInWindow <= maxCalls

\* C9 for the AlphaVantageClient: every HTTP request it sends is preceded by taking a
\* token from its rate limiter; the FMPClient has no rate limiter and takes no token.
C9_AlphaVantageTakesToken ==
  /\ (lastCall.client = "AlphaVantage" /\ lastCall.http) => lastCall.token
  /\ lastCall.client = "FMP" => ~lastCall.token

C9_Witness ==
  /\ lastCall.client = "AlphaVantage" /\ lastCall.http /\ lastCall.token
  /\ tokens = 0

\* C9 for both clients: every HTTP request sent by the AlphaVantageClient or by the
\* FMPClient is preceded by taking a token from a rate limiter.
C9_EveryRequestTakesToken == lastCall.http => lastCall.token

\* C10: after FMPClient.ClearCache has returned nil no entry stored earlier is left, and
\* a GetDividendHistory or GetDividendCalendar that is answered from the cache is answered
\* with an entry stored after the last ClearCache.
C10_ClearCacheRemovesAll ==
  /\ (lastCall.client = "FMP" /\ lastCall.op = "ClearCache") =>
       \A n \in FmpNames : fmpDir[n].state = "absent"
  /\ (lastCall.client = "FMP" /\ lastCall.fromCache) => lastCall.key \in fmpStored
\* C11: after AlphaVantageClient.ClearCache has returned nil no cached metadata is left,
\* and a GetETFOverview that is served from the cache is served with metadata fetched
\* after the last ClearCache.
C11_AvClearCacheRemovesAll ==
  /\ (lastCall.client = "AlphaVantage" /\ lastCall.op = "ClearCache") =>
       \A n \in MetaNames : metaDir[n].state = "absent"
  /\ (lastCall.op = "GetETFOverview" /\ lastCall.fromCache) =>
       \A s \in ApiSymbols :
         lastCall.key = generateCacheKey("etf_metadata", s) => metaFetched[s].set
\* C12: GetMultipleETFOverviews and GetMultipleDividendHistories call the single fetch
\* for every symbol of the list, in list order, return a nil error, and return a map
\* whose keys are exactly the symbols whose fetch succeeded.
C12_LogAndSkipSymbols ==
  /\ multi.pc = "loop" =>
       /\ Len(fetchLog) = multi.idx - 1
       /\ \A i \in 1 .. Len(fetchLog) : fetchLog[i].symbol = multi.list[i]
  /\ (multi.pc = "returned" /\ multi.op # "none") =>
       /\ ~multi.err
       /\ Len(fetchLog) = Len(multi.list)
       /\ \A i \in 1 .. Len(fetchLog) : fetchLog[i].symbol = multi.list[i]
       /\ DOMAIN multi.results =
            {fetchLog[i].symbol : i \in {j \in 1 .. Len(fetchLog) : ~fetchLog[j].err}}

C12_Witness ==
  /\ multi.pc = "returned" /\ multi.op = "GetMultipleETFOverviews"
  /\ Len(multi.list) = MaxList
  /\ fetchLog[1].err /\ ~fetchLog[MaxList].err
  /\ multi.list[1] = multi.list[MaxList]
\* C13: every event parseDividendRow returns has an amount greater than 0 and less than
\* 10 (dollars), a non-zero ex-date with a year from 2020 to the current year plus one,
\* and non-zero pay and declare dates, ex-date + 1 day and ex-date - 1 day when the row
\* gives none; a row of the standard format whose amount cell or ex-date cell does not
\* meet these conditions, and a row of fewer than four cells, produces no event.
C13_EventsWithinBounds ==
  /\ (rowEvent # NotParsed /\ rowEvent # NoEvent) =>
       /\ rowEvent.Amount > 0 /\ rowEvent.Amount < 1000
       /\ ~IsZero(rowEvent.ExDate)
       /\ Year(rowEvent.ExDate) >= 2020 /\ Year(rowEvent.ExDate) <= currentYear + 1
       /\ ~IsZero(rowEvent.PayDate) /\ ~IsZero(rowEvent.DeclareDate)
       /\ Len(row) >= 6 =>
            /\ row[6].kind # "date" => rowEvent.PayDate = rowEvent.ExDate + 1
            /\ row[3].kind # "date" => rowEvent.DeclareDate = rowEvent.ExDate - 1
  /\ (rowEvent # NotParsed /\ Len(row) >= 6) =>
       /\ (row[2].kind = "amount" /\ ~(row[2].cents > 0 /\ row[2].cents < 1000)) =>
            rowEvent = NoEvent
       /\ row[2].kind = "text" => rowEvent = NoEvent
       /\ (row[4].kind # "date" \/ row[4].year < 2020 \/ row[4].year > currentYear + 1) =>
            rowEvent = NoEvent
  /\ (rowEvent # NotParsed /\ Len(row) < 4) => rowEvent = NoEvent

C13_Witness ==
  /\ rowEvent # NotParsed /\ rowEvent # NoEvent
  /\ Len(row) = 6 /\ row[6].kind = "text" /\ row[3].kind = "text"
  /\ Year(rowEvent.ExDate) = currentYear + 1
  /\ rowEvent.PayDate = rowEvent.ExDate + 1
\* C14: in the cached runner a symbol is queued for scraping exactly when its output file
\* does not exist or was modified more than 12 hours ago; every other symbol is counted
\* as cached and never reaches a worker, cachedCount + len(toScrape) is the number of
\* symbols, and its file is not rewritten.
C14_CachedSymbolsSkipped ==
  (runner = "cached" /\ mainPc # "start") =>
    /\ cachedCount + Len(toScrape) = Len(symbols)
    /\ \A s \in DOMAIN symbols :
         /\ (\E i \in DOMAIN toScrape : toScrape[i] = s) <=>
              (fileAge0[s] = NoFile \/ fileAge0[s] > 12)
         /\ ~(fileAge0[s] = NoFile \/ fileAge0[s] > 12) =>
              /\ s \notin Queued /\ recvCount[s] = 0 /\ scrapeErr[s] = "none"
              /\ saveCalls[s] = 0 /\ fileAge[s] = fileAge0[s]

C14_Witness ==
  /\ runner = "cached" /\ mainPc = "done" /\ started
  /\ \E s, u, v \in DOMAIN symbols :
       /\ fileAge0[s] = 12 /\ fileAge[s] = 12
       /\ fileAge0[u] = 11 /\ fileAge[u] = 11
       /\ fileAge0[v] = 13 /\ writeCount[v] = 1
\* C15: when the update workflow is dispatched with force_update set, the run of the
\* cached runner scrapes every ETF again, also those whose file is still valid.
C15_ForceUpdateScrapesAll ==
  (runner = "cached" /\ forceUpdate /\ mainPc = "done") =>
    /\ Len(toScrape) = Len(symbols)
    /\ \A s \in DOMAIN symbols : scrapeErr[s] # "none"
\* C16: in every DividendHistory that ScrapeDividendHistory returns the events are
\* ordered most recent first, so Events[0] has the latest ex-date and Stats.LastAmount
\* is the amount of the most recent dividend, whatever the order of the rows.
C16_MostRecentFirst ==
  history.err = "nil" =>
    /\ \A i, j \in DOMAIN history.Events :
         i < j => history.Events[i].ExDate >= history.Events[j].ExDate
    /\ \A i \in DOMAIN history.Events :
         (\A j \in DOMAIN history.Events :
            history.Events[i].ExDate >= history.Events[j].ExDate) =>
           history.Stats.LastAmount = history.Events[i].Amount
\* the groups the API documents for an entry of etfs.json
C17_DocumentedGroups == {"GroupA", "GroupB", "GroupC", "GroupD", "Weekly", "Target12"}

\* C17: every ETF entry the crawler writes to etfs.json has a group that is one of
\* GroupA, GroupB, GroupC, GroupD, Weekly or Target12, for every symbol of the list
\* and whether or not the schedule scrape succeeded before the list was built.
C17_EveryGroupDocumented ==
  etfsFile.exists => \A e \in etfsFile.data : e.Group \in C17_DocumentedGroups

\* the same for the runs in which the schedule scrape succeeded and was saved
C17_AfterScrapedSchedule ==
  (etfsFile.exists /\ scheduleFile.exists) =>
    \A e \in etfsFile.data : e.Group \in C17_DocumentedGroups
\* the file a Get found could not be used: it did not decode, or its entry had expired
C18_Unusable(file, t) ==
  \/ file.state = "corrupt"
  \/ file.state = "entry" /\ t > file.expiresAt

\* C18: a Get that finds an expired entry or a file that cannot be decoded deletes the
\* file and returns (false, nil); afterwards the entry does not exist: GetStats does not
\* count it and a further Get of the key is a miss for "file not found".
C18_GetRemovesUnusable ==
  (fcLast.op = "Get" /\ C18_Unusable(fcLast.before, fcLast.at)) =>
    /\ ~fcLast.found /\ fcLast.err = "nil"
    /\ fcDir[fcLast.key].state = "absent"
    /\ FcGetStats(fcDir, fcTtl, now).totalEntries =
         Cardinality({n \in FcKeys \ {fcLast.key} :
                        Ext(n) = JsonExt /\ fcDir[n].state # "absent"})
    /\ FcGetStats(fcDir, fcTtl, now).expiredEntries =
         Cardinality({n \in FcKeys \ {fcLast.key} :
                        Ext(n) = JsonExt /\ C18_Unusable(fcDir[n], now)
                        /\ fcDir[n].state = "entry"})
    /\ ~FcGet(fcDir, fcLast.key, "[]DividendEvent", now).found
    /\ FcGet(fcDir, fcLast.key, "[]DividendEvent", now).log = "file not found"

C18_Witness ==
  /\ fcLast.op = "Get" /\ Ext(fcLast.key) = JsonExt
  /\ fcLast.before.state = "entry" /\ fcLast.at > fcLast.before.expiresAt
  /\ \E k \in FcKeys : k # fcLast.key /\ fcDir[k].state = "entry"
\* C19: CleanExpired removes exactly the entries that have expired at the time of the
\* call or cannot be decoded, and leaves every unexpired entry as it is: a Get of its
\* key gives the same hit and the same data after the call as before it.
C19_CleanExpiredExact ==
  fcLast.op = "CleanExpired" =>
    \A k \in FcKeys :
      IF fcLast.before[k].state # "absent" /\ C18_Unusable(fcLast.before[k], fcLast.at)
      THEN fcDir[k].state = "absent"
      ELSE /\ fcDir[k] = fcLast.before[k]
           /\ FcGet(fcDir, k, "[]DividendEvent", fcLast.at).found
                = FcGet(fcLast.before, k, "[]DividendEvent", fcLast.at).found
           /\ FcGet(fcDir, k, "[]DividendEvent", fcLast.at).data
                = FcGet(fcLast.before, k, "[]DividendEvent", fcLast.at).data
\* the part of it that is about the entries that have not expired, and about the keys
\* that end in .json
C19_UnexpiredKept ==
  fcLast.op = "CleanExpired" =>
    \A k \in FcKeys :
      IF fcLast.before[k].state # "absent" /\ C18_Unusable(fcLast.before[k], fcLast.at)
      THEN Ext(k) = JsonExt => fcDir[k].state = "absent"
      ELSE fcDir[k] = fcLast.before[k]
\* C20: the results channel is closed only after every worker has returned, so no
\* worker sends on a closed results channel, and main does not leave its range over
\* results while a worker still has a result to send.
C20_ClosedAfterWorkers ==
  /\ \A w \in BagToSet(workers) : w.pc # "panic"
  /\ resultsClosed => \A w \in BagToSet(workers) : w.pc = "done"
  /\ (started /\ mainPc = "done") =>
       /\ results = << >>
       /\ \A w \in BagToSet(workers) : w.pc = "done"
       /\ \A s \in Queued : sentCount[s] = 1

C20_Witness ==
  /\ started /\ resultsClosed /\ mainPc = "range"
  /\ results # << >>
  /\ Len(toScrape) > maxConcurrent
\* C21: a DividendHistory that ScrapeDividendHistory has returned for one symbol is not
\* modified by a later call on the same scraper: no event parsed from a later symbol's
\* page is appended to it, and each saved history holds events of its own symbol's page
\* only.
C21_OwnPageOnly ==
  /\ \A r \in 1 .. Len(ruResults) :
       ~ruResults[r].err =>
         \A e \in 1 .. Len(ruHistories[ruResults[r].history].Events) :
           ruHistories[ruResults[r].history].Events[e].fromPage = ruResults[r].symbol
  /\ \A i \in DOMAIN ruFiles :
       ruFiles[i].exists =>
         \A e \in 1 .. Len(ruFiles[i].data.Events) :
           ruFiles[i].data.Events[e].fromPage = ruJobs[i]
\* the part of it that is about the files main has written
C21_SavedOwnPageOnly ==
  \A i \in DOMAIN ruFiles :
    ruFiles[i].exists =>
      \A e \in 1 .. Len(ruFiles[i].data.Events) :
        ruFiles[i].data.Events[e].fromPage = ruJobs[i]
====
